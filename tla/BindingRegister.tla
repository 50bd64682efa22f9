--------------------------- MODULE BindingRegister ---------------------------
(***************************************************************************)
(* What `review bind-sdd --expected-binding-revision` promises: the        *)
(* binding of a change is a register that is only replaced by a            *)
(* compare-and-swap, and a process learns whether its swap took place.     *)
(***************************************************************************)
CONSTANTS Binders, Bindings

VARIABLES
    register,   \* {} or the binding of the change
    swap        \* binder -> {} or its call: [expected, binding, done]

vars == <<register, swap>>

Init == register = {} /\ swap = [b \in Binders |-> {}]

Call(b) ==
    /\ swap[b] = {}
    /\ \E call \in swap'[b] :
          /\ call.binding \in Bindings
          /\ \A old \in call.expected : old \in Bindings
          /\ ~ call.done
          /\ swap' = [swap EXCEPT ![b] = {call}]
    /\ UNCHANGED register

(* A binding that is already there is not a conflict.                      *)
Swap(b) ==
    \E call \in swap[b] :
        /\ ~ call.done
        /\ register \in {call.expected, {call.binding}}
        /\ register' = {call.binding}
        /\ swap' = [swap EXCEPT ![b] = {[call EXCEPT !.done = TRUE]}]

(* Success is only reported after the swap; a conflict, a refusal or a     *)
(* crash at any time, also after the swap.                                 *)
Return(b) ==
    /\ swap[b] # {}
    /\ swap' = [swap EXCEPT ![b] = {}]
    /\ UNCHANGED register

Next == \E b \in Binders : Call(b) \/ Swap(b) \/ Return(b)

Spec == Init /\ [][UNCHANGED vars \/ Next]_vars
=============================================================================
