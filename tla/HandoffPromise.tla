--------------------------- MODULE HandoffPromise ---------------------------
(***************************************************************************)
(* What agent handoff promises, whatever is lost, retried or killed: a     *)
(* handoff ID is typed into a terminal at most once, a confirmed message   *)
(* was typed, and an ID whose outcome was answered uncertain is never      *)
(* given to a terminal again.                                              *)
(*                                                                         *)
(* A handing is one attempt's command to the terminal's server: it is      *)
(* either executed (pasted) or refused, now or later.                      *)
(***************************************************************************)
CONSTANTS Attempt, Id, Message

VARIABLES
    handed,     \* handings that were executed or still can be
    pasted,     \* handings that were executed
    confirmed,  \* <<id, message>> pairs some sender was told are delivered
    closed      \* IDs some sender was told are uncertain

vars == <<handed, pasted, confirmed, closed>>

Handing == [by : Attempt, id : Id, message : Message]

Init ==
    /\ handed = {}
    /\ pasted = {}
    /\ confirmed = {}
    /\ closed = {}

Hand(h) ==
    /\ h.id \notin closed
    /\ \A other \in handed : other.id # h.id
    /\ handed' = handed \cup {h}
    /\ UNCHANGED <<pasted, confirmed, closed>>

Refuse(h) ==
    /\ h \in handed \ pasted
    /\ handed' = handed \ {h}
    /\ UNCHANGED <<pasted, confirmed, closed>>

Paste(h) ==
    /\ h \in handed \ pasted
    /\ pasted' = pasted \cup {h}
    /\ UNCHANGED <<handed, confirmed, closed>>

Confirm(h) ==
    /\ h \in pasted
    /\ confirmed' = confirmed \cup {<<h.id, h.message>>}
    /\ UNCHANGED <<handed, pasted, closed>>

Close(i) ==
    /\ closed' = closed \cup {i}
    /\ UNCHANGED <<handed, pasted, confirmed>>

Next ==
    \/ \E h \in Handing : Hand(h) \/ Refuse(h) \/ Paste(h) \/ Confirm(h)
    \/ \E i \in Id : Close(i)

Spec == Init /\ [][Next]_vars

=============================================================================
