------------------------------ MODULE MCMessages ------------------------------
(***************************************************************************)
(* Small instances, for TLC, of the modules that take in, store and answer *)
(* messages: direct messages of Instagram and the account that sends them, *)
(* messages of WhatsApp and their conversations.  They share no variable:  *)
(* each behaviour is one of them, chosen at the start, so that their       *)
(* states add up.                                                          *)
(***************************************************************************)
EXTENDS InstagramMessages, InstagramAccount, WhatsappInbox, Conversations, TLC

CONSTANTS m1, m2, h1, h2, c1, s1

KindOf == m1 :> "text" @@ m2 :> "handoff"
RouteOf == m1 :> "evolution" @@ m2 :> "meta"
SaysWhat == m1 :> "text" @@ m2 :> "human"

MessagesSymmetry == Permutations({h1, h2})

VARIABLE part

MCInit ==
    /\ part \in {"dms", "account", "inbox", "conversation"}
    /\ InstagramInit /\ AccountInit /\ WhatsappInboxInit /\ ConversationsInit
    /\ part = "inbox" \/ redis

MCNext ==
    \/ part = "dms" /\ InstagramNext
       /\ UNCHANGED <<part, accountVars, whatsappInboxVars, conversationVars>>
    \/ part = "account" /\ AccountNext
       /\ UNCHANGED <<part, instagramVars, whatsappInboxVars, conversationVars>>
    \/ part = "inbox" /\ WhatsappInboxNext
       /\ UNCHANGED <<part, instagramVars, accountVars, conversationVars>>
    \/ part = "conversation" /\ ConversationsNext
       /\ UNCHANGED <<part, instagramVars, accountVars, whatsappInboxVars>>

MCSpec ==
    MCInit /\ [][MCNext]_<<part, instagramVars, accountVars, whatsappInboxVars,
                           conversationVars>>
=============================================================================
