------------------------------ MODULE MCWebData ------------------------------
(***************************************************************************)
(* The dashboard's pages for TLC: the query cache, the socket and the      *)
(* plan editor.  The three share no state, so each is run by itself and    *)
(* not interleaved with the others; `part' says which one a behaviour is   *)
(* about.                                                                  *)
(***************************************************************************)
EXTENDS WebData, Realtime, PlanEditor, TLC

VARIABLE part

all == <<vars, realtimeVars, planVars, part>>

MCInit == /\ part \in {"data", "realtime", "plan"}
          /\ Init /\ RealtimeInit /\ PlanInit
          /\ part # "data" => domain = "none"
          /\ part # "plan" => plan.cents = 0 /\ plan.devices = 1
MCNext == /\ UNCHANGED part
          /\ \/ part = "data" /\ Next /\ UNCHANGED <<realtimeVars, planVars>>
             \/ part = "realtime" /\ RealtimeNext /\ UNCHANGED <<vars, planVars>>
             \/ part = "plan" /\ PlanNext /\ UNCHANGED <<vars, realtimeVars>>

MCSpec == MCInit /\ [][MCNext]_all

MCTypeOK == TypeOK /\ RealtimeTypeOK /\ PlanTypeOK

Symmetry == Permutations(Admins)
=============================================================================
