---------------------------- MODULE AtomicStore ----------------------------
(***************************************************************************)
(* What the store promises its callers, whatever goes on between a call     *)
(* and its writer goroutine: a write takes effect at one moment after the   *)
(* call began, at most once, and the writes of one caller in the order of   *)
(* its calls.  A caller told of success can rely on the effect; one told of *)
(* an error cannot rely on its absence, now or later.                       *)
(***************************************************************************)
EXTENDS Naturals

CONSTANTS Caller, Calls

Job == Caller \X (1..Calls)

VARIABLES
    called,   \* calls begun by each caller
    effect,   \* jobs whose write took effect
    told      \* what callers were told: "none" yet, "ok" or "error"

avars == <<called, effect, told>>

AInit ==
    /\ called = [c \in Caller |-> 0]
    /\ effect = {}
    /\ told = [j \in Job |-> "none"]

\* A caller calls once its last call has returned.
Call(c) ==
    /\ called[c] < Calls
    /\ called[c] > 0 => told[<<c, called[c]>>] # "none"
    /\ called' = [called EXCEPT ![c] = @ + 1]
    /\ UNCHANGED <<effect, told>>

TakeEffect(j) ==
    /\ j[2] <= called[j[1]] /\ j \notin effect
    /\ told[j] # "ok"
    /\ \A n \in 1..Calls : <<j[1], n>> \in effect => n < j[2]
    /\ effect' = effect \cup {j}
    /\ UNCHANGED <<called, told>>

Return(j, answer) ==
    /\ j[2] <= called[j[1]] /\ told[j] = "none"
    /\ answer = "ok" => j \in effect
    /\ told' = [told EXCEPT ![j] = answer]
    /\ UNCHANGED <<called, effect>>

ANext ==
    \/ \E c \in Caller : Call(c)
    \/ \E j \in Job : TakeEffect(j) \/ \E answer \in {"ok", "error"} : Return(j, answer)

ASpec == AInit /\ [][ANext]_avars
=============================================================================
