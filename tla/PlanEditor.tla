------------------------------ MODULE PlanEditor ------------------------------
(***************************************************************************)
(* Several administrators edit one plan (app/(admin)/admin/plans).  Each   *)
(* has a copy of the row from the query ["admin", "plans"], a form that is *)
(* seeded from it again when its updated_at changes, and a Save that sends *)
(* every field of the form.  Prices are stored in paise and edited in      *)
(* whole rupees.                                                           *)
(***************************************************************************)
EXTENDS Naturals

CONSTANTS Admins,
          Limits,    \* values of the other fields, for which max_devices stands
          Rupees,    \* prices that are typed
          MaxSaves   \* bound: saves that are applied

ASSUME PlanValues == Limits \subseteq Nat /\ Rupees \subseteq Nat /\ MaxSaves \in Nat

VARIABLES
    plan,     \* the row: price_cents, max_devices, and updated_at as a count
    copy,     \* [Admins -> the plan as it was last fetched]
    form,     \* [Admins -> the fields as they are typed]
    edited,   \* the fields each admin has typed in since the form was seeded
    saving,   \* the patch under way: "no", "sent", "done" or "failed", with the form sent
    loading   \* the query's fetch: "no", "asked", or the row read

planVars == <<plan, copy, form, edited, saving, loading>>

Fields == {"price", "devices"}
PlanRow == [cents : {100 * r : r \in Rupees}, devices : Limits, at : 0..MaxSaves]
Form == [price : Rupees, devices : Limits]
NoSave(f) == [step |-> "no", form |-> f]

\* Math.round(price_cents / 100), and back in handleSave.
InRupees(cents) == (cents + 50) \div 100
InCents(rupees) == 100 * rupees

Seed(row) == [price |-> InRupees(row.cents), devices |-> row.devices]

PlanTypeOK ==
    /\ plan \in PlanRow /\ copy \in [Admins -> PlanRow] /\ form \in [Admins -> Form]
    /\ edited \in [Admins -> SUBSET Fields]
    /\ saving \in [Admins -> [step : {"no", "sent", "done", "failed"}, form : Form]]
    /\ \A a \in Admins : loading[a].step \in {"no", "asked"} \/ loading[a].row \in PlanRow

PlanInit == /\ plan \in {r \in PlanRow : r.at = 0}
            /\ copy = [a \in Admins |-> plan]
            /\ form = [a \in Admins |-> Seed(plan)]
            /\ edited = [a \in Admins |-> {}]
            /\ saving = [a \in Admins |-> NoSave(Seed(plan))]
            /\ loading = [a \in Admins |-> [step |-> "no"]]

Edit(a) == /\ \E f \in Fields :
                /\ edited' = [edited EXCEPT ![a] = @ \union {f}]
                /\ IF f = "price"
                   THEN \E r \in Rupees : form' = [form EXCEPT ![a].price = r]
                   ELSE \E n \in Limits : form' = [form EXCEPT ![a].devices = n]
           /\ UNCHANGED <<plan, copy, saving, loading>>

Dirty(a) == \/ form[a].price # InRupees(copy[a].cents)
            \/ form[a].devices # copy[a].devices

HandleSave(a) == /\ Dirty(a) /\ saving[a].step = "no"
                 /\ saving' = [saving EXCEPT ![a] = [step |-> "sent", form |-> form[a]]]
                 /\ UNCHANGED <<plan, copy, form, edited, loading>>

\* The server writes every field that was sent. Its answer may be lost.
UpdatePlan(a) ==
    /\ saving[a].step = "sent" /\ plan.at < MaxSaves
    /\ plan' = [cents |-> InCents(saving[a].form.price),
                devices |-> saving[a].form.devices, at |-> plan.at + 1]
    /\ \E step \in {"done", "failed"} : saving' = [saving EXCEPT ![a].step = step]
    /\ UNCHANGED <<copy, form, edited, loading>>

SaveFails(a) == /\ saving[a].step = "sent"
                /\ saving' = [saving EXCEPT ![a].step = "failed"]
                /\ UNCHANGED <<plan, copy, form, edited, loading>>

\* Success invalidates the query; failure is a toast and leaves the form as it is.
Saved(a) == /\ saving[a].step \in {"done", "failed"}
            /\ saving' = [saving EXCEPT ![a] = NoSave(Seed(copy[a]))]
            /\ loading' = IF saving[a].step = "done"
                          THEN [loading EXCEPT ![a] = [step |-> "asked"]] ELSE loading
            /\ UNCHANGED <<plan, copy, form, edited>>

\* The page is visited again, or the network is back.
Refetch(a) == /\ loading[a].step = "no"
              /\ loading' = [loading EXCEPT ![a] = [step |-> "asked"]]
              /\ UNCHANGED <<plan, copy, form, edited, saving>>

ReadPlan(a) == /\ loading[a].step = "asked"
               /\ loading' = [loading EXCEPT ![a] = [step |-> "read", row |-> plan]]
               /\ UNCHANGED <<plan, copy, form, edited, saving>>

\* Faulty variant: the form is seeded again only when another plan is shown.
ReseedNot(a, row) == UNCHANGED <<form, edited>>

\* PlanEditor's effect on plan.updated_at: what was typed meanwhile is dropped.
Reseed(a, row) ==
    IF row.at = copy[a].at THEN UNCHANGED <<form, edited>>
    ELSE /\ form' = [form EXCEPT ![a] = Seed(row)]
         /\ edited' = [edited EXCEPT ![a] = {}]

LandPlan(a) == /\ loading[a].step = "read"
               /\ copy' = [copy EXCEPT ![a] = loading[a].row]
               /\ Reseed(a, loading[a].row)
               /\ loading' = [loading EXCEPT ![a] = [step |-> "no"]]
               /\ UNCHANGED <<plan, saving>>

PlanNext == \E a \in Admins :
    Edit(a) \/ HandleSave(a) \/ UpdatePlan(a) \/ SaveFails(a) \/ Saved(a)
    \/ Refetch(a) \/ ReadPlan(a) \/ LandPlan(a)

PlanSpec == PlanInit /\ [][PlanNext]_planVars

-----------------------------------------------------------------------------
\* Save sends back the fields the admin did not touch. A form never holds, in such a
\* field, anything but what its copy of the row shows: so a save undoes another admin's
\* change only if the page had not fetched it (PlanEditor, re-seeding and dirty).
UntouchedIsShown ==
    \A a \in Admins : \A f \in Fields \ edited[a] : form[a][f] = Seed(copy[a])[f]
=============================================================================
