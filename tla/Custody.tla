------------------------------ MODULE Custody -------------------------------
(***************************************************************************)
(* What the host promises about the messages it keeps, whatever tables,    *)
(* requests and deliveries make it happen: a message stays while a local   *)
(* address that holds it has not let go of it, only its holders' own       *)
(* requests let go of it, and one that is gone never comes back.           *)
(***************************************************************************)
CONSTANTS
    Addr,  \* the host's addresses
    Msg    \* messages

VARIABLES
    held,   \* the addresses that sent or accepted each message
    letGo,  \* the addresses that deleted each message for good
    gone    \* messages no longer on the host

vars == <<held, letGo, gone>>

Init ==
    /\ held = [m \in Msg |-> {}]
    /\ letGo = [m \in Msg |-> {}]
    /\ gone = {}

\* m is sent by, or delivered to, more addresses.
TakeOn(m, more) ==
    /\ m \notin gone
    /\ held' = [held EXCEPT ![m] = @ \cup more]
    /\ UNCHANGED <<letGo, gone>>

\* a lets go of the messages in S (one and replies to it); some of those that
\* nobody keeps any more leave the host.
LetGo(a, S, leave) ==
    /\ S \cap gone = {}
    /\ leave \subseteq S
    /\ letGo' = [m \in Msg |-> letGo[m] \cup (IF m \in S THEN {a} ELSE {})]
    /\ \A m \in leave : held[m] \subseteq letGo'[m]
    /\ held' = [m \in Msg |-> IF m \in leave THEN {} ELSE held[m]]
    /\ gone' = gone \cup leave

\* A message that nobody ever held is dropped: a draft.
Discard(m) ==
    /\ held[m] = {}
    /\ letGo[m] = {}
    /\ gone' = gone \cup {m}
    /\ UNCHANGED <<held, letGo>>

Next ==
    \/ \E m \in Msg, more \in SUBSET Addr : TakeOn(m, more)
    \/ \E a \in Addr, S \in SUBSET Msg : \E leave \in SUBSET S :
          LetGo(a, S, leave)
    \/ \E m \in Msg : Discard(m)

Spec == Init /\ [][Next]_vars
=============================================================================
