----------------------------- MODULE UpdateQueue -----------------------------
(***************************************************************************)
(* What the state registry of an FPSI session promises to its plugins,     *)
(* with no thread, lock or batch in sight: updates requested through       *)
(* set_state wait in one first-in first-out queue, each is applied to the  *)
(* registry in one step, and the change that is announced to the plugins   *)
(* carries the value the key really had just before.                       *)
(*                                                                         *)
(* StateRegistry is shown to implement this module.                        *)
(***************************************************************************)
EXTENDS Sequences

CONSTANTS
  Keys,    (* the names of the states                                      *)
  Values,  (* the values a state can be set to                             *)
  Unset    (* what get_state answers for a key that was never set          *)

VARIABLES
  pending,  (* the requested updates that are not applied yet, oldest first *)
  states,   (* the registry: the value of every key                         *)
  notice    (* the last change that was announced                           *)

absvars == <<pending, states, notice>>

UpdateOf == [key : Keys, value : Values]

NoNotice == [key |-> Unset, last |-> Unset, next |-> Unset]

AbsInit ==
  /\ pending = <<>>
  /\ states = [k \in Keys |-> Unset]
  /\ notice = NoNotice

(* set_state: the request joins the end of the queue. *)
Submit(u) ==
  /\ pending' = Append(pending, u)
  /\ UNCHANGED <<states, notice>>

(* The oldest request is applied and announced. *)
Apply ==
  /\ pending # <<>>
  /\ pending' = Tail(pending)
  /\ states' = [states EXCEPT ![Head(pending).key] = Head(pending).value]
  /\ notice' = [key  |-> Head(pending).key,
                last |-> states[Head(pending).key],
                next |-> Head(pending).value]

AbsNext ==
  \/ \E u \in UpdateOf : Submit(u)
  \/ Apply

AbsSpec == AbsInit /\ [][AbsNext]_absvars
=============================================================================
