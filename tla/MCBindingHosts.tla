---------------------------- MODULE MCBindingHosts ----------------------------
(***************************************************************************)
(* Bindings and HostNames, on which its hosts rest, for TLC.  The two share *)
(* no state: `part' says which one a behaviour is about, the calls or the  *)
(* names.  Of the names, one part has many rows and one record at a time,  *)
(* the other many records, no row, and domains that stay.                  *)
(***************************************************************************)
EXTENDS MCBindings, HostNames

VARIABLE part

all == <<vars, names, part>>

MCInit == Init /\ NamesInit /\ part \in {"calls", "rows", "zones"}
MCNext == /\ UNCHANGED part
          /\ \/ part = "calls" /\ Next /\ UNCHANGED names
             \/ /\ part # "calls" /\ NamesNext /\ UNCHANGED vars
                /\ part = "rows" => Cardinality(records') <= 1
                /\ part = "zones" => subs' = {} /\ registered \subseteq registered'
MCSpec == MCInit /\ [][MCNext]_all

MCSymmetry == Symm \cup Permutations(Labels)
===============================================================================
