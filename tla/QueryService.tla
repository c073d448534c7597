---------------------------- MODULE QueryService ----------------------------
(***************************************************************************)
(* What dnrd promises a client about one forwarded query (spec 5 and 8),  *)
(* stated per record slot without sockets, servers, interfaces or time.   *)
(* A slot is opened when a record is created, may hear a successful       *)
(* upstream answer, sends its client at most one answer - a success if one *)
(* was heard before it, otherwise a failure - and is eventually closed.   *)
(* A slot keeps its last answer after it is closed until it is reopened. *)
(***************************************************************************)
EXTENDS Sequences

CONSTANTS
    Slots,   \* record slots
    Rcodes   \* answer outcomes: "ok" and "fail"

ASSUME "ok" \in Rcodes

VARIABLE slot   \* slot[s] = [live, ans (the answers sent), ok (success heard)]

Closed == [live |-> FALSE, ans |-> <<>>, ok |-> FALSE]

Init == slot = [s \in Slots |-> Closed]

(***************************************************************************)
(* The elementary moves of one slot, each as the set of values a slot    *)
(* with value a may have after doing the move or not doing it.            *)
(***************************************************************************)
Opened(a)   == {a} \cup (IF a.live THEN {}
                         ELSE {[live |-> TRUE, ans |-> <<>>, ok |-> FALSE]})
Heard(a)    == {a} \cup (IF a.live THEN {[a EXCEPT !.ok = TRUE]} ELSE {})
Answered(a) == {a} \cup {[a EXCEPT !.ans = <<rc>>] :
                           rc \in IF a.live /\ a.ans = <<>>
                                  THEN {rc \in Rcodes : rc = "ok" \/ ~a.ok}
                                  ELSE {}}
Closes(a)   == {a} \cup (IF a.live THEN {[a EXCEPT !.live = FALSE]} ELSE {})

(***************************************************************************)
(* One step of a slot does some of the moves in the order open, hear,     *)
(* answer, close: a handler may create a record and delete it at once,    *)
(* or process an upstream success, answer and delete in one call.         *)
(***************************************************************************)
SlotStep(a, b) ==
    \E x \in Opened(a) : \E y \in Heard(x) : \E z \in Answered(y) : b \in Closes(z)

Next == slot' # slot /\ \A s \in Slots : SlotStep(slot[s], slot'[s])

Spec == Init /\ [][Next]_slot

(***************************************************************************)
(* The contract with its liveness: an open slot is eventually closed.    *)
(* Closing s is enabled exactly while s is live, so weak fairness on it  *)
(* is this leads-to, which is stated directly.                           *)
(***************************************************************************)
LiveSpec == Spec /\ \A s \in Slots : slot[s].live ~> ~slot[s].live

=============================================================================
