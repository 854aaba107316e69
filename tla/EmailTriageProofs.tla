------------------------- MODULE EmailTriageProofs -------------------------
(***************************************************************************)
(* Theorems about EmailTriage, for every set of processes and templates,   *)
(* every page and threshold, and all bounds.                               *)
(*                                                                         *)
(* The invariant that carries them says where a process may be (Place) and *)
(* what a trust row it has read, and will write back, still owes to the    *)
(* table (Reading): the row may be out of date, but the approvals and the  *)
(* opt-in it shows are on record; and unless the template was edited since,  *)
(* its count is one of approvals after the last edit.                        *)
(***************************************************************************)
EXTENDS EmailTriage, FiniteSetTheorems, TLAPS

Place(a) ==
  /\ a \in Operators => pc[a] \in {"idle", "approve", "promote", "edit"}
  /\ a \in Runs => pc[a] # "edit"
  /\ a \in Runs /\ pc[a] # "idle" => email[a] # 0
  /\ a \in Runs /\ pc[a] \notin {"idle", "look"} => email[a] \in Emails
  /\ pc[a] \in {"evaluate", "send", "notify", "auto_sent", "approve", "promote", "edit"}
       => template[a] \in Templates
  /\ pc[a] \in {"evaluate", "send"} => content[a] = "full"

Reading(a) ==
  pc[a] = "promote" =>
    /\ read[a].optin => template[a] \in granted
    /\ read[a].auto => template[a] \in granted /\ read[a].count >= Threshold
    /\ read[a].count <= trust[template[a]].total
    /\ known[a] <= edits[template[a]]
    /\ ~Outdated(a) /\ template[a] \notin undone => read[a].count <= streak[template[a]]

OptInOnRecord == \A t \in Templates : trust[t].optin => t \in granted

IInv ==
  /\ TypeOK
  /\ \A a \in Actors : Place(a) /\ Reading(a)
  /\ OptInOnRecord
  /\ PromotionEarned

-----------------------------------------------------------------------------
(* Type correctness.                                                       *)

\* Every variable has its type at the start.
LEMMA TypeInit == Init => TypeOK
BY BoundsAssumption DEF Init, TypeOK, TrustRows, NewRow, Labels, LogActions, Contents

\* Leaving a call and moving on to the next email keep the types of what they touch.
LEMMA MoveType ==
  ASSUME TypeOK, NEW a \in Actors, Leave(a) \/ Advance(a)
  PROVE  /\ pc' \in [Actors -> Labels]
         /\ email' \in [Actors -> Nat]
         /\ content' \in [Actors -> Contents]
         /\ template' \in [Actors -> Templates \cup {NoTemplate}]
         /\ read' \in [Actors -> TrustRows] /\ known' \in [Actors -> Nat]
<1>1. NewRow \in TrustRows
  BY DEF NewRow, TrustRows
<1>2. CASE Leave(a)
  BY <1>1, <1>2 DEF TypeOK, Leave, Labels, Contents
<1>3. CASE Advance(a)
  <2>1. email[a] + 1 \in Nat
    BY DEF TypeOK
  <2> QED
    BY <1>1, <1>3, <2>1 DEF TypeOK, Advance, Labels, Contents
<1> QED
  BY <1>2, <1>3

\* The row that an approval or an edit writes is a row.
LEMMA RowType ==
  ASSUME NEW row \in TrustRows, NEW seen \in TrustRows
  PROVE  /\ PromotedRow(row, seen) \in TrustRows
         /\ EditedRow(row, seen) \in TrustRows
         /\ \A b \in BOOLEAN : [row EXCEPT !.optin = b] \in TrustRows
<1>1. Promoted(seen) \in BOOLEAN
  BY DEF Promoted, TrustRows
<1>2. seen.auto \/ seen.demoted \in BOOLEAN
  BY DEF TrustRows
<1>3. PromotedRow(row, seen) \in TrustRows
  <2>1. seen.count + 1 \in Nat /\ row.total + 1 \in Nat
    BY DEF TrustRows
  <2> QED
    BY <1>1, <2>1 DEF TrustRows, PromotedRow
<1>4. EditedRow(row, seen) \in TrustRows
  BY <1>2 DEF TrustRows, EditedRow
<1>5. \A b \in BOOLEAN : [row EXCEPT !.optin = b] \in TrustRows
  BY DEF TrustRows
<1> QED
  BY <1>3, <1>4, <1>5

\* No step of a run, of an operator or of a failure takes a variable out of its type.
LEMMA TypeStep == ASSUME IInv, [Next]_vars PROVE TypeOK'
<1> USE DEF IInv
<1>0. TypeOK /\ \A a \in Actors : Place(a)
  OBVIOUS
<1>1. ASSUME NEW r \in Runs, StartTick(r) PROVE TypeOK'
  <2>1. PICK some \in SUBSET Allowed : OptIn(some)
    BY <1>1 DEF StartTick
  <2>2. trust' \in [Templates -> TrustRows]
    <3>1. \A t \in Templates : [trust[t] EXCEPT !.optin = TRUE] \in TrustRows
      BY <1>0, RowType DEF TypeOK
    <3> QED
      BY <1>0, <2>1, <3>1 DEF TypeOK, OptIn
  <2>3. granted' \subseteq Templates
    BY <1>0, <2>1, ConfigAssumption DEF TypeOK, OptIn
  <2>4. failures' \in 0..MaxFailures
    BY <1>0, <1>1, BoundsAssumption DEF TypeOK, StartTick
  <2> QED
    BY <1>0, <1>1, <2>2, <2>3, <2>4 DEF TypeOK, StartTick, Goto, Labels, Raised
<1>2. ASSUME NEW r \in Runs, EndTick(r) PROVE TypeOK'
  BY <1>0, <1>2, MoveType DEF TypeOK, EndTick, rows, approvals, locals, bounds, Actors
<1>3. ASSUME NEW r \in Runs, Look(r) PROVE TypeOK'
  <2>1. misses' \in 0..MaxMisses
    BY <1>0, <1>3, BoundsAssumption DEF TypeOK, Look
  <2>2. /\ pc' \in [Actors -> Labels]
        /\ email' \in [Actors -> Nat]
        /\ content' \in [Actors -> Contents]
        /\ template' \in [Actors -> Templates \cup {NoTemplate}]
        /\ read' \in [Actors -> TrustRows] /\ known' \in [Actors -> Nat]
    <3>1. CASE Leave(r) \/ Advance(r)
      BY <1>0, <3>1, MoveType DEF Actors
    <3>2. CASE ~Leave(r) /\ ~Advance(r)
      <4>1. PICK c \in Contents :
               /\ content' = [content EXCEPT ![r] = c]
               /\ UNCHANGED <<email, read, known>>
               /\ \/ pc' = [pc EXCEPT ![r] = "skipped"] /\ template' = template
                  \/ /\ pc' = [pc EXCEPT ![r] = "evaluate"]
                     /\ KindOf(email[r], c) \in Templates
                     /\ template' = [template EXCEPT ![r] = KindOf(email[r], c)]
        BY <1>3, <3>2 DEF Look
      <4>2. pc' \in [Actors -> Labels]
        BY <1>0, <4>1 DEF TypeOK, Labels
      <4>3. content' \in [Actors -> Contents]
        BY <1>0, <4>1 DEF TypeOK
      <4>4. template' \in [Actors -> Templates \cup {NoTemplate}]
        BY <1>0, <4>1 DEF TypeOK
      <4> QED
        BY <1>0, <4>1, <4>2, <4>3, <4>4 DEF TypeOK
    <3> QED
      BY <3>1, <3>2
  <2>3. ended' \subseteq Runs
    BY <1>0, <1>3 DEF TypeOK, Look, Raised
  <2> QED
    BY <1>0, <1>3, <2>1, <2>2, <2>3 DEF TypeOK, Look, rows, approvals, locals
<1>4. ASSUME NEW r \in Runs, Evaluate(r) PROVE TypeOK'
  <2>1. trust[template[r]] \in TrustRows
    BY <1>0, <1>4 DEF Evaluate, Goto, Place, Actors, TypeOK
  <2> QED
    BY <1>0, <1>4, <2>1 DEF TypeOK, Evaluate, Goto, Labels, rows, approvals, locals, bounds
<1>5. ASSUME NEW r \in Runs, Send(r) PROVE TypeOK'
  <2>1. email[r] \in Emails
    BY <1>0, <1>5 DEF Send, Goto, Place, Actors
  <2>2. sent' \in [Emails -> Nat]
    BY <1>0, <1>5, <2>1 DEF TypeOK, Send
  <2> QED
    BY <1>0, <1>5, <2>2 DEF TypeOK, Send, Goto, Labels, approvals, locals, bounds
<1>6. ASSUME NEW r \in Runs, Notify(r) PROVE TypeOK'
  BY <1>0, <1>6 DEF TypeOK, Notify, Goto, Labels, rows, approvals, locals, bounds
<1>7. ASSUME NEW r \in Runs, LogDecision(r) PROVE TypeOK'
  <2>1. email[r] \in Emails /\ pc[r] \in LogActions
    BY <1>0, <1>7 DEF LogDecision, LogActions, Place, Actors
  <2>2. [log[email[r]] EXCEPT ![pc[r]] = @ + 1] \in [LogActions -> Nat]
    BY <1>0, <2>1 DEF TypeOK
  <2>3. log' \in [Emails -> [LogActions -> Nat]]
    BY <1>0, <1>7, <2>1, <2>2 DEF TypeOK, LogDecision
  <2> QED
    BY <1>0, <1>7, <2>3 DEF TypeOK, LogDecision, Labels, approvals, locals, bounds
<1>8. ASSUME NEW a \in Actors, ReadTrust(a) PROVE TypeOK'
  <2>1. trust[template[a]] \in TrustRows
    BY <1>0, <1>8 DEF ReadTrust, Goto, Place, TypeOK
  <2>2. edits[template[a]] \in Nat
    BY <1>0, <1>8 DEF ReadTrust, Goto, Place, TypeOK
  <2> QED
    BY <1>0, <1>8, <2>1, <2>2 DEF TypeOK, ReadTrust, Goto, Labels, rows, approvals, bounds
<1>9. ASSUME NEW a \in Actors, Promote(a) PROVE TypeOK'
  <2>1. trust' \in [Templates -> TrustRows]
    <3>1. template[a] \in Templates
      BY <1>0, <1>9 DEF Promote, Place
    <3>2. trust[template[a]] \in TrustRows /\ read[a] \in TrustRows
      BY <1>0, <3>1 DEF TypeOK
    <3>3. PromotedRow(trust[template[a]], read[a]) \in TrustRows
      BY <3>2, RowType
    <3> QED
      BY <1>0, <1>9, <3>1, <3>3 DEF TypeOK, Promote
  <2>2. /\ pc' \in [Actors -> Labels]
        /\ email' \in [Actors -> Nat]
        /\ content' \in [Actors -> Contents]
        /\ template' \in [Actors -> Templates \cup {NoTemplate}]
        /\ read' \in [Actors -> TrustRows] /\ known' \in [Actors -> Nat]
    <3>1. CASE Leave(a)
      BY <1>0, <3>1, MoveType
    <3>2. CASE Goto(a, "promote", "mark") /\ UNCHANGED locals
      BY <1>0, <3>2 DEF TypeOK, Goto, Labels, locals
    <3> QED
      BY <1>9, <3>1, <3>2 DEF Promote
  <2>3. streak' \in [Templates -> Nat] /\ undone' \subseteq Templates
    <3>1. template[a] \in Templates
      BY <1>0, <1>9 DEF Promote, Place
    <3>2. streak[template[a]] + 1 \in Nat
      BY <1>0, <3>1 DEF TypeOK
    <3> QED
      BY <1>0, <1>9, <3>1, <3>2 DEF TypeOK, Promote
  <2> QED
    BY <1>0, <1>9, <2>1, <2>2, <2>3 DEF TypeOK, Promote, bounds
<1>10. ASSUME NEW r \in Runs, Mark(r) PROVE TypeOK'
  <2>1. r \in Actors /\ email[r] \in Emails /\ content[r] \in Contents
    BY <1>0, <1>10 DEF Mark, Place, Actors, TypeOK
  <2> QED
    BY <1>0, <1>10, <2>1, MoveType DEF TypeOK, Mark, approvals, locals, bounds
<1>11. ASSUME NEW o \in Operators, StartFeedback(o) PROVE TypeOK'
  <2>1. PICK t \in Templates :
          /\ template' = [template EXCEPT ![o] = t]
          /\ \/ Goto(o, "idle", "approve") /\ UNCHANGED read
             \/ Goto(o, "idle", "edit") /\ read' = [read EXCEPT ![o] = trust[t]]
    BY <1>11 DEF StartFeedback
  <2>2. trust[t] \in TrustRows /\ o \in Actors
    BY <1>0 DEF TypeOK, Actors
  <2>3. /\ template' \in [Actors -> Templates \cup {NoTemplate}]
        /\ read' \in [Actors -> TrustRows]
        /\ pc' \in [Actors -> Labels]
    BY <1>0, <2>1, <2>2 DEF TypeOK, Goto, Labels
  <2>4. feedback' \in 0..MaxFeedback
    BY <1>0, <1>11, BoundsAssumption DEF TypeOK, StartFeedback
  <2> QED
    BY <1>0, <1>11, <2>3, <2>4 DEF TypeOK, StartFeedback, rows, approvals, locals
<1>12. ASSUME NEW o \in Operators, WriteEdit(o) PROVE TypeOK'
  <2>1. trust' \in [Templates -> TrustRows]
    <3>1. template[o] \in Templates /\ o \in Actors
      BY <1>0, <1>12 DEF WriteEdit, Place, Actors
    <3>2. trust[template[o]] \in TrustRows /\ read[o] \in TrustRows
      BY <1>0, <3>1 DEF TypeOK
    <3>3. EditedRow(trust[template[o]], read[o]) \in TrustRows
      BY <3>2, RowType
    <3> QED
      BY <1>0, <1>12, <3>1, <3>3 DEF TypeOK, WriteEdit
  <2>2. edits' \in [Templates -> Nat]
    <3>1. template[o] \in Templates
      BY <1>0, <1>12 DEF WriteEdit, Place, Actors
    <3>2. edits[template[o]] + 1 \in Nat
      BY <1>0, <3>1 DEF TypeOK
    <3> QED
      BY <1>0, <1>12, <3>1, <3>2 DEF TypeOK, WriteEdit
  <2>3. /\ pc' \in [Actors -> Labels]
        /\ email' \in [Actors -> Nat]
        /\ content' \in [Actors -> Contents]
        /\ template' \in [Actors -> Templates \cup {NoTemplate}]
        /\ read' \in [Actors -> TrustRows] /\ known' \in [Actors -> Nat]
    <3>1. o \in Actors /\ Leave(o)
      BY <1>12 DEF WriteEdit, Actors
    <3> QED
      BY <1>0, <3>1, MoveType
  <2>4. streak' \in [Templates -> Nat] /\ undone' \subseteq Templates
    BY <1>0, <1>12 DEF TypeOK, WriteEdit
  <2> QED
    BY <1>0, <1>12, <2>1, <2>2, <2>3, <2>4 DEF TypeOK, WriteEdit, bounds
<1>13. ASSUME NEW o \in Operators, SetOptIn(o) PROVE TypeOK'
  <2>1. PICK t \in Templates, enabled \in BOOLEAN :
          /\ trust' = [trust EXCEPT ![t].optin = enabled]
          /\ granted' = IF enabled THEN granted \cup {t} ELSE granted
    BY <1>13 DEF SetOptIn
  <2>2. [trust[t] EXCEPT !.optin = enabled] \in TrustRows
    BY <1>0, RowType DEF TypeOK
  <2>3. trust' \in [Templates -> TrustRows]
    BY <1>0, <2>1, <2>2 DEF TypeOK
  <2>4. granted' \subseteq Templates
    BY <1>0, <2>1 DEF TypeOK
  <2>5. feedback' \in 0..MaxFeedback
    BY <1>0, <1>13, BoundsAssumption DEF TypeOK, SetOptIn
  <2> QED
    BY <1>0, <1>13, <2>3, <2>4, <2>5 DEF TypeOK, SetOptIn, locals
<1>14. ASSUME NEW a \in Actors, Fail(a) PROVE TypeOK'
  BY <1>0, <1>14, MoveType, BoundsAssumption DEF TypeOK, Fail, Raised, rows, approvals
<1>15. CASE UNCHANGED vars
  BY <1>0, <1>15 DEF TypeOK, vars, rows, approvals, locals, bounds
<1> QED
  BY <1>1, <1>2, <1>3, <1>4, <1>5, <1>6, <1>7, <1>8, <1>9, <1>10, <1>11, <1>12, <1>13,
     <1>14, <1>15
  DEF Next, RunStep, OperatorStep, Actors

-----------------------------------------------------------------------------
(* The invariant.                                                          *)

\* Only process a moves.
Moves(a) ==
  \A b \in Actors \ {a} :
    /\ pc'[b] = pc[b] /\ email'[b] = email[b] /\ content'[b] = content[b]
    /\ template'[b] = template[b] /\ read'[b] = read[b] /\ known'[b] = known[b]

\* Approvals and opt-ins that are on record stay on record, and an approval or an edit
\* undone counts until the next edit.
Grows ==
  /\ granted \subseteq granted'
  /\ \A t \in Templates :
       /\ trust[t].total <= trust'[t].total
       /\ edits[t] <= edits'[t]
       /\ edits'[t] = edits[t] => streak[t] <= streak'[t] /\ (t \in undone => t \in undone')

\* What a step has to show: its own process ends up in place, with a reading that
\* is on record, the others do not move, and the table keeps its promise.
Sound(a) == Moves(a) /\ Grows /\ Place(a)' /\ Reading(a)' /\ OptInOnRecord' /\ PromotionEarned'

\* At the start nobody has read anything and no template is trusted.
LEMMA InitInv == Init => IInv
<1> SUFFICES ASSUME Init PROVE IInv
  OBVIOUS
<1>1. TypeOK
  BY TypeInit
<1>2. \A a \in Actors : Place(a) /\ Reading(a)
  BY DEF Init, Place, Reading
<1>3. OptInOnRecord /\ PromotionEarned
  BY DEF Init, OptInOnRecord, PromotionEarned, NewRow
<1> QED
  BY <1>1, <1>2, <1>3 DEF IInv

\* A process that does not move stays in place, and what it has read stays on record.
LEMMA Others ==
  ASSUME IInv, TypeOK', NEW a \in Actors, Moves(a), Grows, NEW b \in Actors \ {a}
  PROVE  Place(b)' /\ Reading(b)'
<1>1. /\ pc'[b] = pc[b] /\ email'[b] = email[b] /\ content'[b] = content[b]
      /\ template'[b] = template[b] /\ read'[b] = read[b] /\ known'[b] = known[b]
  BY DEF Moves
<1>2. Place(b) /\ Reading(b)
  BY DEF IInv
<1>3. Place(b)'
  BY <1>1, <1>2 DEF Place
<1>4. ASSUME pc[b] = "promote"
      PROVE  /\ read[b].optin => template[b] \in granted'
             /\ read[b].auto => template[b] \in granted' /\ read[b].count >= Threshold
             /\ read[b].count <= trust'[template[b]].total
             /\ known[b] <= edits'[template[b]]
             /\ known[b] = edits'[template[b]] /\ template[b] \notin undone'
                  => read[b].count <= streak'[template[b]]
  <2> DEFINE s == template[b]
  <2>1. s \in Templates
    BY <1>2, <1>4 DEF Place
  <2>2. /\ read[b].count \in Nat /\ trust[s].total \in Nat /\ trust'[s].total \in Nat
        /\ edits[s] \in Nat /\ edits'[s] \in Nat /\ known[b] \in Nat
        /\ streak[s] \in Nat /\ streak'[s] \in Nat
    BY <2>1 DEF IInv, TypeOK, TrustRows
  <2>3. /\ read[b].count <= trust[s].total /\ known[b] <= edits[s]
        /\ known[b] = edits[s] /\ s \notin undone => read[b].count <= streak[s]
        /\ read[b].optin => s \in granted
        /\ read[b].auto => s \in granted /\ read[b].count >= Threshold
    BY <1>2, <1>4 DEF Reading, Outdated
  <2>4. /\ trust[s].total <= trust'[s].total /\ edits[s] <= edits'[s]
        /\ edits'[s] = edits[s] => streak[s] <= streak'[s] /\ (s \in undone => s \in undone')
        /\ granted \subseteq granted'
    BY <2>1 DEF Grows
  <2> HIDE DEF s
  <2>5. known[b] = edits'[s] /\ s \notin undone' => read[b].count <= streak'[s]
    BY <2>2, <2>3, <2>4
  <2>6. read[b].count <= trust'[s].total /\ known[b] <= edits'[s]
    BY <2>2, <2>3, <2>4
  <2> QED
    BY <2>3, <2>4, <2>5, <2>6 DEF s
<1> QED
  BY <1>1, <1>3, <1>4 DEF Reading, Outdated

\* A step that leaves the trust table alone keeps its promise.
LEMMA Untouched ==
  ASSUME IInv, UNCHANGED <<trust, edits, approvals>>
  PROVE  Grows /\ OptInOnRecord' /\ PromotionEarned'
<1>1. \A t \in Templates : trust[t].total \in Nat /\ edits[t] \in Nat /\ streak[t] \in Nat
  BY DEF IInv, TypeOK, TrustRows
<1> QED
  BY <1>1 DEF IInv, Grows, OptInOnRecord, PromotionEarned, approvals

\* A process that leaves its call, or a run that goes on to its next email, is in place.
LEMMA Moved ==
  ASSUME IInv, NEW a \in Actors, Leave(a) \/ (a \in Runs /\ Advance(a))
  PROVE  Moves(a) /\ Place(a)' /\ Reading(a)'
<1>1. TypeOK
  BY DEF IInv
<1>2. CASE Leave(a)
  BY <1>1, <1>2 DEF TypeOK, Leave, Moves, Place, Reading
<1>3. CASE a \in Runs /\ Advance(a)
  BY <1>1, <1>3, ActorsAssumption DEF TypeOK, Advance, Moves, Place, Reading
<1> QED
  BY <1>2, <1>3

\* A tick starts: the allowlist is opted in, and that is put on record.
LEMMA StartTickSound ==
  ASSUME IInv, TypeOK', NEW r \in Runs, StartTick(r)
  PROVE  Sound(r)
<1>1. TypeOK /\ r \in Actors /\ r \notin Operators
  BY ActorsAssumption DEF IInv, Actors
<1>2. Moves(r) /\ Place(r)' /\ Reading(r)'
  BY <1>1 DEF TypeOK, StartTick, Goto, Moves, Place, Reading
<1>3. PICK some \in SUBSET Allowed : OptIn(some)
  BY DEF StartTick
<1>4. ASSUME NEW t \in Templates
      PROVE  /\ trust'[t].count = trust[t].count
             /\ trust'[t].total = trust[t].total
             /\ trust'[t].auto = trust[t].auto
             /\ trust'[t].optin => trust[t].optin \/ t \in some
             /\ trust[t].count \in Nat /\ trust[t].total \in Nat
             /\ edits[t] \in Nat /\ streak[t] \in Nat
  <2>1. trust[t] \in TrustRows
    BY <1>1 DEF TypeOK
  <2>2. trust'[t] = IF t \in some THEN [trust[t] EXCEPT !.optin = TRUE] ELSE trust[t]
    BY <1>3 DEF OptIn
  <2> QED
    BY <1>1, <2>1, <2>2 DEF TrustRows, TypeOK
<1>5. granted' = granted \cup some /\ edits' = edits /\ streak' = streak /\ undone' = undone
  BY <1>3 DEF OptIn, StartTick
<1> QED
  BY <1>2, <1>4, <1>5 DEF Sound, Grows, IInv, OptInOnRecord, PromotionEarned

\* A run looks at an email, and may find it answered, unanswerable or poisoned.
LEMMA LookSound ==
  ASSUME IInv, TypeOK', NEW r \in Runs, Look(r)
  PROVE  Sound(r)
<1>1. TypeOK /\ r \in Actors /\ r \notin Operators
  BY ActorsAssumption DEF IInv, Actors
<1>2. Place(r) /\ pc[r] = "look" /\ email[r] <= NumEmails
  BY <1>1 DEF Look, InPage, IInv
<1>3. email[r] \in Emails
  BY <1>1, <1>2, ConfigAssumption DEF TypeOK, Place, Emails
<1>4. Moves(r) /\ Place(r)' /\ Reading(r)'
  <2>1. CASE Leave(r) \/ Advance(r)
    BY <1>1, <2>1, Moved
  <2>2. CASE ~Leave(r) /\ ~Advance(r)
    <3>1. PICK c \in Contents :
            \/ /\ pc' = [pc EXCEPT ![r] = "skipped"]
               /\ content' = [content EXCEPT ![r] = c]
               /\ UNCHANGED <<email, template, read, known>>
            \/ /\ KindOf(email[r], c) \in Templates
               /\ pc' = [pc EXCEPT ![r] = "evaluate"]
               /\ content' = [content EXCEPT ![r] = c]
               /\ template' = [template EXCEPT ![r] = KindOf(email[r], c)]
               /\ UNCHANGED <<email, read, known>>
      BY <2>2 DEF Look
    <3>2. CASE /\ pc' = [pc EXCEPT ![r] = "skipped"]
               /\ content' = [content EXCEPT ![r] = c]
               /\ UNCHANGED <<email, template, read, known>>
      BY <1>1, <1>2, <1>3, <3>2 DEF TypeOK, Moves, Place, Reading
    <3>3. CASE /\ KindOf(email[r], c) \in Templates
               /\ pc' = [pc EXCEPT ![r] = "evaluate"]
               /\ content' = [content EXCEPT ![r] = c]
               /\ template' = [template EXCEPT ![r] = KindOf(email[r], c)]
               /\ UNCHANGED <<email, read, known>>
      <4>1. c = "full"
        BY <3>3, ConfigAssumption DEF KindOf, Contents
      <4> QED
        BY <1>1, <1>2, <1>3, <3>3, <4>1 DEF TypeOK, Moves, Place, Reading
    <3> QED
      BY <3>1, <3>2, <3>3
  <2> QED
    BY <2>1, <2>2
<1> QED
  BY <1>4, Untouched DEF Look, rows, approvals, locals, Sound

\* The steps of a tick that leave the trust table alone.
LEMMA QuietSound ==
  ASSUME IInv, TypeOK', NEW r \in Runs,
         EndTick(r) \/ Evaluate(r) \/ Send(r) \/ Notify(r) \/ LogDecision(r) \/ Mark(r)
  PROVE  Sound(r)
<1>1. TypeOK /\ r \in Actors /\ r \notin Operators /\ Place(r)
  BY ActorsAssumption DEF IInv, Actors
<1>2. Grows /\ OptInOnRecord' /\ PromotionEarned'
  BY Untouched
  DEF EndTick, Evaluate, Send, Notify, LogDecision, Mark, rows, approvals, locals
<1>3. CASE EndTick(r) \/ Mark(r)
  BY <1>1, <1>2, <1>3, Moved DEF EndTick, Mark, Sound
<1>4. CASE Evaluate(r)
  BY <1>1, <1>2, <1>4 DEF TypeOK, Evaluate, Goto, Moves, Place, Reading, Sound
<1>5. CASE Send(r)
  BY <1>1, <1>2, <1>5 DEF TypeOK, Send, Goto, Moves, locals, Place, Reading, Sound
<1>6. CASE Notify(r)
  BY <1>1, <1>2, <1>6 DEF TypeOK, Notify, Goto, Moves, locals, Place, Reading, Sound
<1>7. CASE LogDecision(r)
  BY <1>1, <1>2, <1>7
  DEF TypeOK, LogDecision, LogActions, Moves, locals, Place, Reading, Sound
<1> QED
  BY <1>3, <1>4, <1>5, <1>6, <1>7

\* What an approval reads is on record: the table keeps its promise.
LEMMA ReadTrustSound ==
  ASSUME IInv, TypeOK', NEW a \in Actors, ReadTrust(a)
  PROVE  Sound(a)
<1>1. TypeOK /\ Place(a)
  BY DEF IInv
<1>2. Grows /\ OptInOnRecord' /\ PromotionEarned'
  BY Untouched DEF ReadTrust, rows, approvals, locals
<1>3. pc[a] = "approve" /\ template[a] \in Templates
  BY <1>1 DEF ReadTrust, Goto, Place
<1>4. Moves(a) /\ Place(a)'
  BY <1>1, <1>3 DEF TypeOK, ReadTrust, Goto, Moves, Place
<1>5. /\ read'[a] = trust[template[a]] /\ known'[a] = edits[template[a]] /\ template' = template
      /\ trust' = trust /\ granted' = granted
      /\ edits' = edits /\ streak' = streak /\ undone' = undone /\ edits[template[a]] \in Nat
  BY <1>1, <1>3 DEF TypeOK, ReadTrust, rows, approvals
<1>6. Reading(a)'
  BY <1>3, <1>5 DEF Reading, Outdated, IInv, OptInOnRecord, PromotionEarned
<1> QED
  BY <1>2, <1>4, <1>6 DEF Sound

\* An approval may write from a reading that is out of date: the streak and the
\* promotion it writes were on record when it read them, and still are.
LEMMA PromoteSound ==
  ASSUME IInv, TypeOK', NEW a \in Actors, Promote(a)
  PROVE  Sound(a)
<1> DEFINE s == template[a]
<1>1. TypeOK /\ Place(a) /\ Reading(a) /\ pc[a] = "promote" /\ s \in Templates
  BY DEF IInv, Promote, Place
<1>2. Moves(a) /\ Place(a)' /\ Reading(a)'
  <2>1. CASE Leave(a)
    BY <2>1, Moved
  <2>2. CASE a \in Runs /\ Goto(a, "promote", "mark") /\ UNCHANGED locals
    BY <1>1, <2>2, ActorsAssumption DEF TypeOK, Goto, Moves, Place, Reading, locals
  <2> QED
    BY <2>1, <2>2 DEF Promote
<1>3. granted' = granted /\ \A t \in Templates \ {s} : trust'[t] = trust[t]
  BY <1>1 DEF TypeOK, Promote
<1>4. trust'[s] = PromotedRow(trust[s], read[a])
  BY <1>1 DEF TypeOK, Promote
<1>5. trust[s] \in TrustRows /\ read[a] \in TrustRows
  BY <1>1 DEF TypeOK
<1>6. /\ trust'[s].count = read[a].count + 1
      /\ trust'[s].total = trust[s].total + 1
      /\ trust'[s].auto = Promoted(read[a])
      /\ trust'[s].optin = trust[s].optin
  BY <1>4, <1>5 DEF PromotedRow, TrustRows
<1>7. Promoted(read[a]) => s \in granted /\ read[a].count + 1 >= Threshold
  BY <1>1, <1>5, ConfigAssumption DEF Reading, Promoted, TrustRows
<1>8. \A t \in Templates : /\ trust[t].total \in Nat /\ trust[t].count \in Nat
                           /\ edits[t] \in Nat /\ streak[t] \in Nat
  BY <1>1 DEF TypeOK, TrustRows
<1>9. /\ edits' = edits /\ streak'[s] = streak[s] + 1
      /\ \A t \in Templates \ {s} : streak'[t] = streak[t]
      /\ undone' = IF Outdated(a) THEN undone \cup {s} ELSE undone
  BY <1>1 DEF TypeOK, Promote
<1>10. Grows
  BY <1>3, <1>5, <1>6, <1>8, <1>9 DEF Grows, TrustRows
<1>11. OptInOnRecord'
  BY <1>3, <1>6 DEF OptInOnRecord, IInv
<1>12. PromotionEarned'
  <2>1. SUFFICES ASSUME NEW t \in Templates
                 PROVE  /\ trust'[t].auto => t \in granted' /\ trust'[t].count >= Threshold
                        /\ t \notin undone' =>
                             /\ trust'[t].count <= streak'[t]
                             /\ trust'[t].auto => streak'[t] >= Threshold
                        /\ trust'[t].count <= trust'[t].total
    BY DEF PromotionEarned
  <2>2. CASE t # s
    BY <1>3, <1>9, <2>2 DEF PromotionEarned, IInv
  <2>3. CASE t = s
    <3>1. read[a].count <= trust[s].total
      BY <1>1 DEF Reading
    <3>2. read[a].count + 1 <= trust[s].total + 1
      BY <1>5, <3>1 DEF TrustRows
    <3>3. ASSUME s \notin undone'
          PROVE  /\ read[a].count + 1 <= streak[s] + 1
                 /\ Promoted(read[a]) => streak[s] + 1 >= Threshold
      <4>1. read[a].count <= streak[s]
        BY <1>1, <1>9, <3>3 DEF Reading
      <4>2. read[a].count \in Nat /\ streak[s] \in Nat /\ Threshold \in Nat
        BY <1>1, <1>5, <1>8, ConfigAssumption DEF TrustRows
      <4>3. read[a].count + 1 <= streak[s] + 1
        BY <4>1, <4>2
      <4> HIDE DEF s
      <4>4. read[a].count + 1 >= Threshold => streak[s] + 1 >= Threshold
        BY <4>2, <4>3
      <4> QED
        BY <1>7, <4>3, <4>4
    <3> QED
      BY <1>3, <1>6, <1>7, <1>9, <2>3, <3>2, <3>3
  <2> QED
    BY <2>2, <2>3
<1> QED
  BY <1>2, <1>10, <1>11, <1>12 DEF Sound

\* An operator begins an approval or an edit.
LEMMA StartFeedbackSound ==
  ASSUME IInv, TypeOK', NEW o \in Operators, StartFeedback(o)
  PROVE  Sound(o)
<1>1. TypeOK /\ o \in Actors /\ o \notin Runs /\ Place(o)
  BY ActorsAssumption DEF IInv, Actors
<1>2. Grows /\ OptInOnRecord' /\ PromotionEarned'
  BY Untouched DEF StartFeedback, rows, approvals, locals
<1>3. PICK t \in Templates :
        /\ template' = [template EXCEPT ![o] = t]
        /\ \/ Goto(o, "idle", "approve") /\ UNCHANGED read
           \/ Goto(o, "idle", "edit") /\ read' = [read EXCEPT ![o] = trust[t]]
  BY DEF StartFeedback
<1>4. Moves(o) /\ Place(o)' /\ Reading(o)'
  BY <1>1, <1>3 DEF StartFeedback, TypeOK, Goto, Moves, Place, Reading
<1> QED
  BY <1>2, <1>4 DEF Sound

\* An edit takes the streak and the promotion away, whatever it read.
LEMMA WriteEditSound ==
  ASSUME IInv, TypeOK', NEW o \in Operators, WriteEdit(o)
  PROVE  Sound(o)
<1> DEFINE s == template[o]
<1>1. TypeOK /\ o \in Actors /\ s \in Templates
  BY DEF IInv, WriteEdit, Place, Actors
<1>2. Moves(o) /\ Place(o)' /\ Reading(o)'
  BY <1>1, Moved DEF WriteEdit
<1>3. granted' = granted /\ \A t \in Templates \ {s} : trust'[t] = trust[t]
  BY <1>1 DEF TypeOK, WriteEdit
<1>4. trust[s] \in TrustRows /\ read[o] \in TrustRows
  BY <1>1 DEF TypeOK
<1>5. trust'[s] = EditedRow(trust[s], read[o])
  BY <1>1 DEF TypeOK, WriteEdit
<1>6. /\ trust'[s].count = 0 /\ trust'[s].total = trust[s].total
      /\ ~trust'[s].auto /\ trust'[s].optin = trust[s].optin
  BY <1>4, <1>5 DEF EditedRow, TrustRows
<1>7. \A t \in Templates : trust[t].total \in Nat /\ edits[t] \in Nat /\ streak[t] \in Nat
  BY <1>1 DEF TypeOK, TrustRows
<1>8. /\ edits'[s] = edits[s] + 1 /\ streak'[s] = 0 /\ undone' = undone \ {s}
      /\ \A t \in Templates \ {s} : edits'[t] = edits[t] /\ streak'[t] = streak[t]
  BY <1>1 DEF TypeOK, WriteEdit
<1> QED
  BY <1>2, <1>3, <1>6, <1>7, <1>8 DEF Sound, Grows, IInv, OptInOnRecord, PromotionEarned

\* An opt-in goes on record, an opt-out removes nothing from it.
LEMMA SetOptInSound ==
  ASSUME IInv, TypeOK', NEW o \in Operators, SetOptIn(o)
  PROVE  Sound(o)
<1>1. TypeOK /\ o \in Actors /\ o \notin Runs
  BY ActorsAssumption DEF IInv, Actors
<1>2. Moves(o) /\ Place(o)' /\ Reading(o)'
  BY <1>1 DEF SetOptIn, Moves, Place, Reading, IInv, locals
<1>3. PICK s \in Templates, enabled \in BOOLEAN :
        /\ trust' = [trust EXCEPT ![s].optin = enabled]
        /\ granted' = IF enabled THEN granted \cup {s} ELSE granted
  BY DEF SetOptIn
<1>4. \A t \in Templates \ {s} : trust'[t] = trust[t]
  BY <1>1, <1>3 DEF TypeOK
<1>5. trust[s] \in TrustRows /\ trust'[s] = [trust[s] EXCEPT !.optin = enabled]
  BY <1>1, <1>3 DEF TypeOK
<1>6. /\ trust'[s].count = trust[s].count /\ trust'[s].total = trust[s].total
      /\ trust'[s].auto = trust[s].auto /\ trust'[s].optin = enabled
  BY <1>5 DEF TrustRows
<1>7. \A t \in Templates : /\ trust[t].total \in Nat /\ trust[t].count \in Nat
                           /\ edits[t] \in Nat /\ streak[t] \in Nat
  BY <1>1 DEF TypeOK, TrustRows
<1>8. edits' = edits /\ streak' = streak /\ undone' = undone
  BY DEF SetOptIn
<1> QED
  BY <1>2, <1>3, <1>4, <1>6, <1>7, <1>8
  DEF Sound, Grows, IInv, OptInOnRecord, PromotionEarned

\* A call that raises, and a crash, leave the table as it is.
LEMMA FailSound ==
  ASSUME IInv, TypeOK', NEW a \in Actors, Fail(a)
  PROVE  Sound(a)
BY Moved, Untouched DEF Fail, rows, approvals, locals, Sound

\* Every step keeps the invariant.
LEMMA InvStep == ASSUME IInv, [Next]_vars PROVE IInv'
<1>1. TypeOK'
  BY TypeStep
<1>2. CASE UNCHANGED vars
  BY <1>1, <1>2
  DEF vars, rows, approvals, locals, bounds, IInv, Place, Reading, Outdated, OptInOnRecord,
      PromotionEarned
<1>3. ASSUME NEW a \in Actors, Sound(a) PROVE IInv'
  <2>1. \A b \in Actors \ {a} : Place(b)' /\ Reading(b)'
    BY <1>1, <1>3, Others DEF Sound
  <2> QED
    BY <1>1, <1>3, <2>1 DEF Sound, IInv
<1>4. ASSUME NEW r \in Runs, StartTick(r) \/ RunStep(r) PROVE Sound(r)
  <2>1. r \in Actors
    BY DEF Actors
  <2> QED
    BY <1>1, <1>4, <2>1, StartTickSound, LookSound, QuietSound, ReadTrustSound, PromoteSound
    DEF RunStep
<1>5. ASSUME NEW o \in Operators, StartFeedback(o) \/ SetOptIn(o) \/ OperatorStep(o)
      PROVE  Sound(o)
  <2>1. o \in Actors
    BY DEF Actors
  <2> QED
    BY <1>1, <1>5, <2>1, StartFeedbackSound, SetOptInSound, WriteEditSound, ReadTrustSound,
       PromoteSound
    DEF OperatorStep
<1>6. ASSUME NEW a \in Actors, Fail(a) PROVE Sound(a)
  BY <1>1, <1>6, FailSound
<1> QED
  BY <1>2, <1>3, <1>4, <1>5, <1>6 DEF Next, Actors

-----------------------------------------------------------------------------
(* The theorems.                                                           *)

\* Every state of the routine keeps the invariant.
THEOREM Invariance == Spec => []IInv
<1>1. Init => IInv
  BY InitInv
<1>2. IInv /\ [Next]_vars => IInv'
  BY InvStep
<1> QED
  BY <1>1, <1>2, PTL DEF Spec

\* Type correctness: in particular a streak is never negative and a run never
\* works on an email that is not there.
THEOREM TypeCorrect == Spec => []TypeOK
<1>1. IInv => TypeOK
  BY DEF IInv
<1> QED
  BY <1>1, Invariance, PTL

\* Behind every template that sends by itself there are an opt-in and Threshold
\* approvals recorded since its last edit, unless that edit was written over by an
\* approval that had read the row before it: for any number of ticks and operators
\* that race on its row and any number of crashes between their reads and writes.
THEOREM Promotion == Spec => []PromotionEarned
<1>1. IInv => PromotionEarned
  BY DEF IInv
<1> QED
  BY <1>1, Invariance, PTL

-----------------------------------------------------------------------------
(***************************************************************************)
(* How often the email_triage routine answers an email: at most once per   *)
(* run that can be working at the same time, and once more per failure,    *)
(* for any number of runs, emails and failures.                            *)
(*                                                                         *)
(* is_processed is read long before mark_processed is written, so a run    *)
(* that has found it unmarked holds a ticket for a reply until it sends    *)
(* it (Asked), and a run that has sent it owes the email its mark until it *)
(* writes it (Answered).  As long as the email has no mark, every reply to *)
(* it belongs to a run that still owes the mark, or to a failure.          *)
(*                                                                         *)
(* The decision log is tallied the same way: a reply is in the log, or     *)
(* belongs to a run on its way to record_decision (Logging), or to a       *)
(* failure; and a run that marks an email has a decision in the log that   *)
(* agrees with the content it hashed (Decided).                            *)
(***************************************************************************)

\* Runs that have found e unanswered and may still answer it.
Asked(e) == {r \in Runs : pc[r] \in {"evaluate", "send"} /\ email[r] = e}

\* Runs that have answered e, or need not, and have not marked it.
Answered(e) ==
  {r \in Runs : /\ pc[r] \in {"auto_sent", "approve", "promote", "mark"}
                /\ email[r] = e /\ content[r] = "full"}

Bounded(e) ==
  /\ sent[e] + Cardinality(Asked(e)) <= Cardinality(Runs) + failures
  /\ <<e, "full">> \notin processed => sent[e] <= Cardinality(Answered(e)) + failures

RInv == IInv /\ \A e \in Emails : Bounded(e)

-----------------------------------------------------------------------------
(* Counting.                                                               *)

\* Sets of runs can be counted.
LEMMA Countable ==
  ASSUME NEW S \in SUBSET Runs
  PROVE  IsFiniteSet(S) /\ Cardinality(S) \in Nat
<1>1. IsFiniteSet(S)
  BY ActorsAssumption, FS_Subset
<1> QED
  BY <1>1, FS_CardinalityType

\* Two sets that differ in r at most differ by one, in the direction r moved.
LEMMA OneMoved ==
  ASSUME NEW S \in SUBSET Runs, NEW T \in SUBSET Runs, NEW r, S \ {r} = T \ {r}
  PROVE  /\ (r \in T => r \in S) => Cardinality(T) <= Cardinality(S)
         /\ Cardinality(T) <= Cardinality(S) + 1
         /\ r \in S /\ r \notin T => Cardinality(T) = Cardinality(S) - 1
         /\ r \notin S /\ r \in T => Cardinality(T) = Cardinality(S) + 1
<1>1. IsFiniteSet(S) /\ IsFiniteSet(T) /\ Cardinality(S) \in Nat /\ Cardinality(T) \in Nat
  BY Countable
<1>2. Cardinality(S \ {r}) = IF r \in S THEN Cardinality(S) - 1 ELSE Cardinality(S)
  BY <1>1, FS_RemoveElement
<1>3. Cardinality(T \ {r}) = IF r \in T THEN Cardinality(T) - 1 ELSE Cardinality(T)
  BY <1>1, FS_RemoveElement
<1> QED
  BY <1>1, <1>2, <1>3

\* Disjoint sets of runs are together no more than the runs.
LEMMA Disjoint ==
  ASSUME NEW S \in SUBSET Runs, NEW T \in SUBSET Runs, S \cap T = {}
  PROVE  Cardinality(S) + Cardinality(T) <= Cardinality(Runs)
<1>1. IsFiniteSet(S) /\ IsFiniteSet(T) /\ Cardinality(S) \in Nat /\ Cardinality(T) \in Nat
  BY Countable
<1>2. Cardinality(S \cup T) = Cardinality(S) + Cardinality(T)
  <2>1. Cardinality(S \cup T) = Cardinality(S) + Cardinality(T) - Cardinality(S \cap T)
    BY <1>1, FS_Union
  <2>2. Cardinality(S \cap T) = 0
    BY FS_EmptySet
  <2> QED
    BY <1>1, <2>1, <2>2
<1>3. Cardinality(S \cup T) <= Cardinality(Runs)
  BY ActorsAssumption, FS_Subset
<1> QED
  BY <1>2, <1>3

-----------------------------------------------------------------------------
(* Steps.                                                                  *)

\* A step of process a moves no other process in or out of the two sets.
LEMMA OnlyOne ==
  ASSUME NEW a \in Actors, Moves(a), NEW e
  PROVE  /\ Asked(e)' \ {a} = Asked(e) \ {a}
         /\ Answered(e)' \ {a} = Answered(e) \ {a}
BY DEF Moves, Actors, Asked, Answered

\* A step that sends nothing keeps the bound of e if its process does not pass the
\* check of e, and if a process that owes e its mark still owes it, has written it
\* or has failed.
LEMMA SendsNothing ==
  ASSUME IInv, TypeOK', NEW e \in Emails, Bounded(e), NEW a \in Actors, Moves(a),
         sent' = sent, failures <= failures', processed \subseteq processed',
         a \in Asked(e)' => a \in Asked(e),
         a \in Answered(e) =>
           a \in Answered(e)' \/ failures' = failures + 1 \/ <<e, "full">> \in processed'
  PROVE  Bounded(e)'
<1>1. /\ sent[e] \in Nat /\ failures \in Nat /\ failures' \in Nat
  BY DEF IInv, TypeOK
<1>2. /\ Asked(e) \in SUBSET Runs /\ Asked(e)' \in SUBSET Runs
      /\ Answered(e) \in SUBSET Runs /\ Answered(e)' \in SUBSET Runs
  BY DEF Asked, Answered
<1>3. /\ Cardinality(Asked(e)) \in Nat /\ Cardinality(Asked(e)') \in Nat
      /\ Cardinality(Answered(e)) \in Nat /\ Cardinality(Answered(e)') \in Nat
      /\ Cardinality(Runs) \in Nat
  BY <1>2, Countable
<1>4. Cardinality(Asked(e)') <= Cardinality(Asked(e))
  BY <1>2, OnlyOne, OneMoved
<1>5. sent'[e] + Cardinality(Asked(e)') <= Cardinality(Runs) + failures'
  BY <1>1, <1>3, <1>4 DEF Bounded
<1>6. ASSUME <<e, "full">> \notin processed'
      PROVE  sent'[e] <= Cardinality(Answered(e)') + failures'
  <2>1. sent[e] <= Cardinality(Answered(e)) + failures
    BY <1>6 DEF Bounded
  <2>2. CASE a \in Answered(e) => a \in Answered(e)'
    <3>1. Cardinality(Answered(e)) <= Cardinality(Answered(e)')
      BY <1>2, <2>2, OnlyOne, OneMoved
    <3> QED
      BY <1>1, <1>3, <2>1, <3>1
  <2>3. CASE a \in Answered(e) /\ a \notin Answered(e)'
    <3>1. Cardinality(Answered(e)') = Cardinality(Answered(e)) - 1
      BY <1>2, <2>3, OnlyOne, OneMoved
    <3>2. failures' = failures + 1
      BY <1>6, <2>3
    <3> QED
      BY <1>1, <1>3, <2>1, <3>1, <3>2
  <2> QED
    BY <2>2, <2>3
<1> QED
  BY <1>5, <1>6 DEF Bounded

\* What is_processed tells: a run may take a ticket for an email that has no mark,
\* and then no more runs hold tickets or owe the mark than there are runs.
LEMMA LookBounded ==
  ASSUME IInv, TypeOK', NEW e \in Emails, Bounded(e), NEW r \in Runs, Look(r)
  PROVE  Bounded(e)'
<1>1. TypeOK /\ r \in Actors /\ Moves(r)
  BY LookSound DEF IInv, Sound, Actors
<1>2. pc[r] = "look" /\ r \notin Asked(e) /\ r \notin Answered(e)
  BY DEF Look, Asked, Answered
<1>3. sent' = sent /\ failures' = failures /\ processed' = processed
  BY DEF Look, rows, approvals, locals
<1>4. failures \in Nat /\ sent[e] \in Nat
  BY <1>1 DEF TypeOK
<1>5. CASE r \notin Asked(e)'
  <2>1. failures <= failures' /\ processed \subseteq processed'
    BY <1>3, <1>4
  <2> QED
    BY <1>1, <1>2, <1>3, <1>5, <2>1, SendsNothing
<1>6. CASE r \in Asked(e)'
  <2>1. pc'[r] = "evaluate" /\ email'[r] = e
    BY <1>1, <1>2, <1>6 DEF Asked, Look, Leave, Advance, TypeOK
  <2>2. email[r] = e /\ <<e, "full">> \notin processed
    <3>1. ~Leave(r) /\ ~Advance(r)
      BY <1>1, <2>1 DEF Leave, Advance, TypeOK
    <3>2. PICK c \in Contents : /\ ~Seen(email[r], c) /\ email' = email
                               /\ \/ pc' = [pc EXCEPT ![r] = "skipped"]
                                  \/ KindOf(email[r], c) \in Templates
      BY <3>1 DEF Look
    <3>3. pc' # [pc EXCEPT ![r] = "skipped"]
      BY <1>1, <2>1 DEF TypeOK
    <3>4. c # "empty"
      BY <3>2, <3>3, ConfigAssumption DEF KindOf
    <3> QED
      BY <2>1, <3>2, <3>4 DEF Seen, Contents
  <2>3. sent[e] <= Cardinality(Answered(e)) + failures
    BY <2>2 DEF Bounded
  <2>4. r \notin Answered(e)'
    BY <2>1 DEF Answered
  <2>5. Answered(e)' = Answered(e)
    BY <1>1, <1>2, <2>4, OnlyOne
  <2>6. Asked(e)' \in SUBSET Runs /\ Answered(e)' \in SUBSET Runs
    BY DEF Asked, Answered
  <2>7. Asked(e)' \cap Answered(e)' = {}
    BY DEF Asked, Answered
  <2>8. Cardinality(Asked(e)') + Cardinality(Answered(e)') <= Cardinality(Runs)
    BY <2>6, <2>7, Disjoint
  <2>9. /\ Cardinality(Asked(e)') \in Nat /\ Cardinality(Answered(e)') \in Nat
        /\ Cardinality(Runs) \in Nat
    BY <2>6, Countable
  <2> QED
    BY <1>3, <1>4, <2>3, <2>5, <2>8, <2>9 DEF Bounded
<1> QED
  BY <1>5, <1>6

\* The send: the run hands its ticket in and owes the mark.
LEMMA SendBounded ==
  ASSUME IInv, TypeOK', NEW e \in Emails, Bounded(e), NEW r \in Runs, Send(r)
  PROVE  Bounded(e)'
<1>1. TypeOK /\ r \in Actors /\ Moves(r) /\ Place(r)
  BY QuietSound DEF IInv, Sound, Actors
<1>2. /\ pc[r] = "send" /\ pc'[r] = "auto_sent" /\ content[r] = "full" /\ email[r] \in Emails
      /\ email' = email /\ content' = content /\ failures' = failures /\ processed' = processed
      /\ sent' = [sent EXCEPT ![email[r]] = @ + 1]
  BY <1>1 DEF Send, Goto, TypeOK, Place, bounds, locals
<1>3. CASE email[r] # e
  <2>1. r \notin Asked(e) /\ r \notin Answered(e) /\ r \notin Asked(e)' /\ r \notin Answered(e)'
    BY <1>2, <1>3 DEF Asked, Answered
  <2>2. Asked(e)' = Asked(e) /\ Answered(e)' = Answered(e)
    BY <1>1, <2>1, OnlyOne
  <2>3. sent'[e] = sent[e]
    BY <1>1, <1>2, <1>3 DEF TypeOK
  <2> QED
    BY <1>2, <2>2, <2>3 DEF Bounded
<1>4. CASE email[r] = e
  <2>1. r \in Asked(e) /\ r \notin Answered(e) /\ r \notin Asked(e)' /\ r \in Answered(e)'
    BY <1>2, <1>4 DEF Asked, Answered
  <2>2. /\ Asked(e) \in SUBSET Runs /\ Asked(e)' \in SUBSET Runs
        /\ Answered(e) \in SUBSET Runs /\ Answered(e)' \in SUBSET Runs
    BY DEF Asked, Answered
  <2>3. Cardinality(Asked(e)') = Cardinality(Asked(e)) - 1
    BY <1>1, <2>1, <2>2, OnlyOne, OneMoved
  <2>4. Cardinality(Answered(e)') = Cardinality(Answered(e)) + 1
    BY <1>1, <2>1, <2>2, OnlyOne, OneMoved
  <2>5. sent'[e] = sent[e] + 1 /\ sent[e] \in Nat /\ failures \in Nat
    BY <1>1, <1>2, <1>4 DEF TypeOK
  <2>6. /\ Cardinality(Asked(e)) \in Nat /\ Cardinality(Answered(e)) \in Nat
        /\ Cardinality(Runs) \in Nat
    BY <2>2, Countable
  <2> QED
    BY <1>2, <2>3, <2>4, <2>5, <2>6 DEF Bounded
<1> QED
  BY <1>3, <1>4

\* The other steps of a tick send nothing: a run that owes a mark keeps owing it
\* until mark_processed pays it.
LEMMA TickBounded ==
  ASSUME IInv, TypeOK', NEW e \in Emails, Bounded(e), NEW r \in Runs,
         \/ StartTick(r) \/ EndTick(r) \/ Evaluate(r) \/ Notify(r) \/ LogDecision(r)
         \/ ReadTrust(r) \/ Promote(r) \/ Mark(r)
  PROVE  Bounded(e)'
<1>1. TypeOK /\ r \in Actors /\ r \notin Operators /\ failures \in Nat
  BY ActorsAssumption DEF IInv, Actors, TypeOK
<1>2. Moves(r)
  BY <1>1, StartTickSound, QuietSound, ReadTrustSound, PromoteSound DEF Sound
<1>3. sent' = sent /\ failures <= failures' /\ processed \subseteq processed'
  BY <1>1
  DEF StartTick, EndTick, Evaluate, Notify, LogDecision, ReadTrust, Promote, Mark, rows,
      approvals, locals, bounds
<1>4. r \in Asked(e)' => r \in Asked(e)
  BY <1>1
  DEF StartTick, EndTick, Evaluate, Notify, LogDecision, LogActions, ReadTrust, Promote,
              Mark, Goto, Leave, Advance, Asked, TypeOK
<1>5. r \in Answered(e) => r \in Answered(e)' \/ <<e, "full">> \in processed'
  <2>1. CASE StartTick(r) \/ EndTick(r) \/ Evaluate(r) \/ Notify(r)
    BY <2>1 DEF StartTick, EndTick, Evaluate, Notify, Goto, Answered
  <2>2. CASE LogDecision(r) \/ ReadTrust(r)
    BY <1>1, <2>2 DEF LogDecision, ReadTrust, Goto, Answered, TypeOK, locals
  <2>3. CASE Promote(r)
    BY <1>1, <2>3 DEF Promote, Goto, Answered, TypeOK, locals
  <2>4. CASE Mark(r)
    BY <1>1, <2>4 DEF Mark, Answered
  <2> QED
    BY <2>1, <2>2, <2>3, <2>4
<1> QED
  BY <1>1, <1>2, <1>3, <1>4, <1>5, SendsNothing

\* Operators and failures send nothing, and a failure pays for the mark that is lost.
LEMMA RestBounded ==
  ASSUME IInv, TypeOK', NEW e \in Emails, Bounded(e), NEW a \in Actors,
         \/ a \in Operators /\ (StartFeedback(a) \/ SetOptIn(a) \/ OperatorStep(a))
         \/ Fail(a)
  PROVE  Bounded(e)'
<1>1. TypeOK /\ failures \in Nat
  BY DEF IInv, TypeOK
<1>2. CASE a \in Operators /\ (StartFeedback(a) \/ SetOptIn(a) \/ OperatorStep(a))
  <2>1. a \notin Asked(e) /\ a \notin Asked(e)' /\ a \notin Answered(e)
    BY <1>2, ActorsAssumption DEF Asked, Answered
  <2>2. Moves(a)
    BY <1>2, StartFeedbackSound, SetOptInSound, WriteEditSound, ReadTrustSound, PromoteSound
    DEF OperatorStep, Sound
  <2>3. sent' = sent /\ failures' = failures /\ processed' = processed
    BY <1>2
    DEF StartFeedback, SetOptIn, OperatorStep, ReadTrust, Promote, WriteEdit, rows,
        approvals, locals, bounds
  <2>4. failures <= failures' /\ processed \subseteq processed'
    BY <1>1, <2>3
  <2> QED
    BY <2>1, <2>2, <2>3, <2>4, SendsNothing
<1>3. CASE Fail(a)
  <2>1. Moves(a)
    BY <1>3, FailSound DEF Sound
  <2>2. a \notin Asked(e)'
    BY <1>1, <1>3 DEF Fail, Leave, Asked, TypeOK
  <2>3. sent' = sent /\ failures' = failures + 1 /\ processed' = processed
    BY <1>3 DEF Fail, rows, approvals, locals
  <2> QED
    BY <1>1, <2>1, <2>2, <2>3, SendsNothing
<1> QED
  BY <1>2, <1>3

\* Nobody has a ticket at the start.
LEMMA ReplyInit == Init => RInv
<1> SUFFICES ASSUME Init PROVE RInv
  OBVIOUS
<1>1. ASSUME NEW e \in Emails PROVE Bounded(e)
  <2>1. sent[e] = 0 /\ failures = 0 /\ Asked(e) = {} /\ Answered(e) = {}
    BY <1>1 DEF Init, Asked, Answered, Actors
  <2>2. Cardinality(Runs) \in Nat /\ Cardinality({}) = 0
    BY Countable, FS_EmptySet
  <2> QED
    BY <2>1, <2>2 DEF Bounded
<1> QED
  BY <1>1, InitInv DEF RInv

\* Every step keeps the bound of every email.
LEMMA ReplyStep == ASSUME RInv, [Next]_vars PROVE RInv'
<1>1. IInv' /\ TypeOK'
  BY InvStep DEF RInv, IInv
<1>2. ASSUME NEW e \in Emails PROVE Bounded(e)'
  <2>1. IInv /\ Bounded(e)
    BY <1>2 DEF RInv
  <2>2. CASE UNCHANGED vars
    BY <2>1, <2>2 DEF vars, rows, approvals, locals, bounds, Bounded, Asked, Answered
  <2>3. ASSUME NEW r \in Runs, StartTick(r) \/ RunStep(r) PROVE Bounded(e)'
    BY <1>1, <2>1, <2>3, LookBounded, SendBounded, TickBounded DEF RunStep
  <2>4. ASSUME NEW o \in Operators, StartFeedback(o) \/ SetOptIn(o) \/ OperatorStep(o)
        PROVE  Bounded(e)'
    BY <1>1, <2>1, <2>4, RestBounded DEF Actors
  <2>5. ASSUME NEW a \in Actors, Fail(a) PROVE Bounded(e)'
    BY <1>1, <2>1, <2>5, RestBounded
  <2> QED
    BY <2>2, <2>3, <2>4, <2>5 DEF Next
<1> QED
  BY <1>1, <1>2 DEF RInv

\* Every email is answered at most once per run and once more per failure: overlapping
\* ticks and ticks cut short between the reply and its mark are the only ways to
\* answer an email again, for any number of each.
THEOREM Replies == Spec => []RepliesBounded
<1>1. RInv => RepliesBounded
  <2>1. SUFFICES ASSUME RInv, NEW e \in Emails
                 PROVE  sent[e] <= Cardinality(Runs) + failures
    BY DEF RepliesBounded
  <2>2. Asked(e) \in SUBSET Runs
    BY DEF Asked
  <2>3. Cardinality(Asked(e)) \in Nat /\ Cardinality(Runs) \in Nat
    BY <2>2, Countable
  <2>4. sent[e] \in Nat /\ failures \in Nat
    BY <2>1 DEF RInv, IInv, TypeOK
  <2>5. sent[e] + Cardinality(Asked(e)) <= Cardinality(Runs) + failures
    BY <2>1 DEF RInv, Bounded
  <2> QED
    BY <2>3, <2>4, <2>5
<1>2. Init => RInv
  BY ReplyInit
<1>3. RInv /\ [Next]_vars => RInv'
  BY ReplyStep
<1> QED
  BY <1>1, <1>2, <1>3, PTL DEF Spec

-----------------------------------------------------------------------------
(* The decision log.                                                       *)

\* Runs that have answered e and have not logged it.
Logging(e) == {r \in Runs : pc[r] = "auto_sent" /\ email[r] = e}

\* The replies to e are those in the log, those on their way there and those of
\* failures.
Tally(e) ==
  /\ log[e]["auto_sent"] + Cardinality(Logging(e)) <= sent[e]
  /\ sent[e] <= log[e]["auto_sent"] + Cardinality(Logging(e)) + failures

\* The log has the decision that the content of e calls for.
Explained(e, c) ==
  IF KindOf(e, c) = Skip
  THEN log[e]["skipped"] > 0
  ELSE log[e]["auto_sent"] + log[e]["drafted"] > 0

\* What a run has decided agrees with the content it hashed, and is in the log once
\* the run has passed record_decision.
Decided(r) ==
  /\ pc[r] = "skipped" => KindOf(email[r], content[r]) = Skip
  /\ pc[r] \in {"evaluate", "send", "notify", "auto_sent", "drafted"}
       => KindOf(email[r], content[r]) # Skip
  /\ pc[r] \in {"approve", "promote", "mark"} => Explained(email[r], content[r])

LInv ==
  /\ IInv
  /\ \A e \in Emails : Tally(e)
  /\ \A r \in Runs : Decided(r)
  /\ ProcessedExplained

LEMMA LogRows ==
  ASSUME TypeOK, NEW e \in Emails
  PROVE  /\ log[e]["auto_sent"] \in Nat /\ log[e]["drafted"] \in Nat /\ log[e]["skipped"] \in Nat
         /\ sent[e] \in Nat /\ failures \in Nat
         /\ Logging(e) \in SUBSET Runs /\ Cardinality(Logging(e)) \in Nat
<1>1. Logging(e) \in SUBSET Runs
  BY DEF Logging
<1> QED
  BY <1>1, Countable DEF TypeOK, LogActions

\* A step that neither sends nor logs keeps the tally if a run that has a reply to
\* log keeps it or fails.
LEMMA TallyKept ==
  ASSUME TypeOK, TypeOK', NEW e \in Emails, Tally(e), NEW a \in Actors, Moves(a),
         sent' = sent, log' = log,
         a \in Logging(e)' => a \in Logging(e),
         \/ failures' = failures /\ (a \in Logging(e) => a \in Logging(e)')
         \/ failures' = failures + 1
  PROVE  Tally(e)'
<1>1. Logging(e)' \ {a} = Logging(e) \ {a}
  BY DEF Moves, Actors, Logging
<1>2. Logging(e)' \in SUBSET Runs /\ Cardinality(Logging(e)') \in Nat
  <2>1. Logging(e)' \in SUBSET Runs
    BY DEF Logging
  <2> QED
    BY <2>1, Countable
<1>3. Cardinality(Logging(e)') <= Cardinality(Logging(e))
  BY <1>1, <1>2, LogRows, OneMoved
<1>4. CASE a \in Logging(e) => a \in Logging(e)'
  <2>1. Cardinality(Logging(e)) <= Cardinality(Logging(e)')
    BY <1>1, <1>2, <1>4, LogRows, OneMoved
  <2> QED
    BY <1>2, <1>3, <2>1, LogRows DEF Tally
<1>5. CASE a \in Logging(e) /\ a \notin Logging(e)'
  <2>1. Cardinality(Logging(e)') = Cardinality(Logging(e)) - 1 /\ failures' = failures + 1
    BY <1>1, <1>2, <1>5, LogRows, OneMoved
  <2> QED
    BY <1>2, <2>1, LogRows DEF Tally
<1> QED
  BY <1>4, <1>5

\* The send: one reply more, and one more to log.
LEMMA SendTally ==
  ASSUME TypeOK, NEW e \in Emails, Tally(e), NEW r \in Runs, Moves(r), Send(r)
  PROVE  Tally(e)'
<1>1. /\ pc[r] = "send" /\ pc'[r] = "auto_sent" /\ email' = email /\ log' = log
      /\ failures' = failures /\ sent' = [sent EXCEPT ![email[r]] = @ + 1]
  BY DEF Send, Goto, TypeOK, bounds, Actors, locals
<1>2. Logging(e)' \ {r} = Logging(e) \ {r} /\ r \notin Logging(e)
  BY <1>1 DEF Moves, Actors, Logging
<1>3. Logging(e)' \in SUBSET Runs
  BY DEF Logging
<1>4. CASE email[r] = e
  <2>1. r \in Logging(e)'
    BY <1>1, <1>4 DEF Logging
  <2>2. Cardinality(Logging(e)') = Cardinality(Logging(e)) + 1
    BY <1>2, <1>3, <2>1, LogRows, OneMoved
  <2>3. sent'[e] = sent[e] + 1
    BY <1>1, <1>4 DEF TypeOK
  <2> QED
    BY <1>1, <2>2, <2>3, LogRows DEF Tally
<1>5. CASE email[r] # e
  <2>1. Logging(e)' = Logging(e)
    BY <1>1, <1>2, <1>5 DEF Logging
  <2>2. sent'[e] = sent[e]
    BY <1>1, <1>5 DEF TypeOK
  <2> QED
    BY <1>1, <2>1, <2>2 DEF Tally
<1> QED
  BY <1>4, <1>5

\* What record_decision does to the log: one row more, for the run's email and the
\* action it has reached.
LEMMA LogGrows ==
  ASSUME TypeOK, NEW r \in Runs, Place(r), LogDecision(r)
  PROVE  /\ email[r] \in Emails /\ pc[r] \in LogActions
         /\ log'[email[r]][pc[r]] = log[email[r]][pc[r]] + 1
         /\ \A e \in Emails, b \in LogActions :
              (e # email[r] \/ b # pc[r]) => log'[e][b] = log[e][b]
<1>1. email[r] \in Emails /\ pc[r] \in LogActions
  BY DEF LogDecision, LogActions, Place
<1>2. log' = [log EXCEPT ![email[r]] = [log[email[r]] EXCEPT ![pc[r]] = log[email[r]][pc[r]] + 1]]
  BY DEF LogDecision
<1>3. \A e \in Emails : log[e] \in [LogActions -> Nat]
  BY DEF TypeOK
<1>4. log'[email[r]] = [log[email[r]] EXCEPT ![pc[r]] = log[email[r]][pc[r]] + 1]
      /\ \A e \in Emails : e # email[r] => log'[e] = log[e]
  BY <1>1, <1>2 DEF TypeOK
<1> QED
  BY <1>1, <1>3, <1>4

LEMMA LogTally ==
  ASSUME TypeOK, NEW e \in Emails, Tally(e), NEW r \in Runs, Place(r), Moves(r), LogDecision(r)
  PROVE  Tally(e)'
<1>1. /\ pc'[r] # "auto_sent" /\ sent' = sent /\ failures' = failures
  BY DEF LogDecision, TypeOK, bounds, Actors
<1>2. Logging(e)' \ {r} = Logging(e) \ {r} /\ r \notin Logging(e)'
  BY <1>1 DEF Moves, Actors, Logging
<1>3. Logging(e)' \in SUBSET Runs
  BY DEF Logging
<1>4. CASE email[r] = e /\ pc[r] = "auto_sent"
  <2>1. r \in Logging(e)
    BY <1>4 DEF Logging
  <2>2. Cardinality(Logging(e)') = Cardinality(Logging(e)) - 1
    BY <1>2, <1>3, <2>1, LogRows, OneMoved
  <2>3. log'[e]["auto_sent"] = log[e]["auto_sent"] + 1
    BY <1>4, LogGrows
  <2> QED
    BY <1>1, <2>2, <2>3, LogRows DEF Tally
<1>5. CASE email[r] # e \/ pc[r] # "auto_sent"
  <2>1. Logging(e)' = Logging(e)
    BY <1>2, <1>5 DEF Logging
  <2>2. log'[e]["auto_sent"] = log[e]["auto_sent"]
    BY <1>5, LogGrows DEF LogActions
  <2> QED
    BY <1>1, <2>1, <2>2 DEF Tally
<1> QED
  BY <1>4, <1>5

\* An explanation stays in the log, and a decision of the right kind is one.
LEMMA Explains ==
  ASSUME TypeOK, NEW r \in Runs, Place(r), LogDecision(r)
  PROVE  /\ \A e \in Emails, c \in Contents : Explained(e, c) => Explained(e, c)'
         /\ Decided(r) => Explained(email[r], content[r])'
<1>1. \A e \in Emails, b \in LogActions :
        /\ log[e][b] \in Nat
        /\ log'[e][b] = log[e][b] \/ log'[e][b] = log[e][b] + 1
  BY LogGrows DEF TypeOK
<1>2. \A e \in Emails :
        /\ log[e]["skipped"] > 0 => log'[e]["skipped"] > 0
        /\ log[e]["auto_sent"] + log[e]["drafted"] > 0
             => log'[e]["auto_sent"] + log'[e]["drafted"] > 0
  BY <1>1 DEF LogActions
<1>3. ASSUME NEW e \in Emails, NEW c \in Contents, Explained(e, c) PROVE Explained(e, c)'
  BY <1>2, <1>3 DEF Explained, KindOf
<1>4. ASSUME Decided(r) PROVE Explained(email[r], content[r])'
  <2> DEFINE e == email[r]
             c == content[r]
  <2>1. e \in Emails /\ email' = email /\ content' = content
    BY LogGrows DEF LogDecision, locals
  <2>2. CASE pc[r] = "skipped"
    <3>1. KindOf(e, c) = Skip /\ log'[e]["skipped"] > 0
      BY <1>1, <1>4, <2>1, <2>2, LogGrows DEF Decided, LogActions
    <3> QED
      BY <2>1, <3>1 DEF Explained, KindOf
  <2>3. CASE pc[r] \in {"auto_sent", "drafted"}
    <3>1. KindOf(e, c) # Skip
      BY <1>4, <2>3 DEF Decided
    <3>2. log'[e]["auto_sent"] + log'[e]["drafted"] > 0
      BY <1>1, <2>1, <2>3, LogGrows DEF LogActions
    <3> QED
      BY <2>1, <3>1, <3>2 DEF Explained, KindOf
  <2> QED
    BY <2>2, <2>3, LogGrows DEF LogActions
<1> QED
  BY <1>3, <1>4

\* A step that leaves the log alone keeps what it explains.
LEMMA LogSame ==
  ASSUME log' = log, NEW e, NEW c
  PROVE  Explained(e, c)' <=> Explained(e, c)
BY DEF Explained, KindOf

\* The moves of a run along the decisions.
LEMMA DecidedStep ==
  ASSUME IInv, NEW r \in Runs, Decided(r), StartTick(r) \/ RunStep(r) \/ Fail(r)
  PROVE  Decided(r)'
<1>1. TypeOK /\ r \in Actors /\ r \notin Operators /\ Place(r)
  BY ActorsAssumption DEF IInv, Actors
<1>2. CASE StartTick(r) \/ EndTick(r) \/ Mark(r) \/ Fail(r)
  <2>1. pc'[r] \in {"idle", "look"}
    BY <1>1, <1>2 DEF TypeOK, StartTick, EndTick, Mark, Fail, Goto, Leave, Advance
  <2> QED
    BY <2>1 DEF Decided
<1>3. CASE Look(r)
  <2>1. \/ pc'[r] \in {"idle", "look"}
        \/ pc'[r] = "skipped" /\ KindOf(email'[r], content'[r]) = Skip
        \/ pc'[r] = "evaluate" /\ KindOf(email'[r], content'[r]) \in Templates
    BY <1>1, <1>3 DEF TypeOK, Look, Leave, Advance
  <2> QED
    BY <2>1, ConfigAssumption DEF Decided, KindOf
<1>4. CASE Evaluate(r) \/ Send(r) \/ Notify(r)
  <2>1. /\ pc[r] \in {"evaluate", "send", "notify"}
        /\ pc'[r] \in {"send", "notify", "auto_sent", "drafted"}
        /\ email' = email /\ content' = content
    BY <1>1, <1>4 DEF TypeOK, Evaluate, Send, Notify, Goto, locals
  <2> QED
    BY <2>1 DEF Decided, KindOf
<1>5. CASE LogDecision(r)
  <2>1. pc'[r] \in {"approve", "mark"} /\ email' = email /\ content' = content
    BY <1>1, <1>5 DEF TypeOK, LogDecision, locals
  <2>2. Explained(email[r], content[r])'
    BY <1>1, <1>5, Explains
  <2> QED
    BY <2>1, <2>2 DEF Decided
<1>6. CASE ReadTrust(r) \/ Promote(r)
  <2>1. /\ pc[r] \in {"approve", "promote"} /\ pc'[r] \in {"promote", "mark"}
        /\ email' = email /\ content' = content /\ log' = log
    BY <1>1, <1>6 DEF TypeOK, ReadTrust, Promote, Goto, rows, approvals, locals
  <2>2. Explained(email[r], content[r])'
    BY <2>1, LogSame DEF Decided
  <2> QED
    BY <2>1, <2>2 DEF Decided
<1> QED
  BY <1>2, <1>3, <1>4, <1>5, <1>6 DEF RunStep

\* A step of another process, which leaves the log alone or adds to it.
LEMMA DecidedKept ==
  ASSUME IInv, NEW r \in Runs, Decided(r), NEW a \in Actors, a # r, Moves(a),
         log' = log \/ (a \in Runs /\ LogDecision(a))
  PROVE  Decided(r)'
<1>1. pc'[r] = pc[r] /\ email'[r] = email[r] /\ content'[r] = content[r]
  BY DEF Moves, Actors
<1>2. TypeOK /\ Place(r) /\ Place(a) /\ r \in Actors
  BY DEF IInv, Actors
<1>3. pc[r] \in {"approve", "promote", "mark"} => email[r] \in Emails /\ content[r] \in Contents
  BY <1>2 DEF Place, TypeOK
<1>4. pc[r] \in {"approve", "promote", "mark"} => Explained(email[r], content[r])'
  <2>1. ASSUME NEW e \in Emails, NEW c \in Contents, Explained(e, c) PROVE Explained(e, c)'
    BY <1>2, <2>1, LogSame, Explains
  <2> QED
    BY <1>1, <1>3, <2>1 DEF Decided, Explained
<1> QED
  BY <1>1, <1>4 DEF Decided, KindOf

\* Steps that neither send nor log.
Quiet(a) ==
  \/ a \in Runs /\ (StartTick(a) \/ (RunStep(a) /\ ~Send(a) /\ ~LogDecision(a)))
  \/ a \in Operators /\ (StartFeedback(a) \/ SetOptIn(a) \/ OperatorStep(a))
  \/ Fail(a)

LEMMA QuietStep ==
  ASSUME IInv, TypeOK', NEW a \in Actors, Quiet(a)
  PROVE  /\ Moves(a) /\ sent' = sent /\ log' = log
         /\ processed' = processed \/ (a \in Runs /\ Mark(a))
<1>1. CASE a \in Runs /\ (StartTick(a) \/ (RunStep(a) /\ ~Send(a) /\ ~LogDecision(a)))
  <2>1. Moves(a)
    BY <1>1, StartTickSound, QuietSound, LookSound, ReadTrustSound, PromoteSound
    DEF RunStep, Sound
  <2> QED
    BY <1>1, <2>1
    DEF RunStep, StartTick, EndTick, Look, Evaluate, Notify, ReadTrust, Promote, Mark,
        rows, approvals, locals
<1>2. CASE a \in Operators /\ (StartFeedback(a) \/ SetOptIn(a) \/ OperatorStep(a))
  <2>1. Moves(a)
    BY <1>2, StartFeedbackSound, SetOptInSound, WriteEditSound, ReadTrustSound, PromoteSound
    DEF OperatorStep, Sound
  <2> QED
    BY <1>2, <2>1
    DEF StartFeedback, SetOptIn, OperatorStep, ReadTrust, Promote, WriteEdit, rows,
        approvals, locals
<1>3. CASE Fail(a)
  <2>1. Moves(a)
    BY <1>3, FailSound DEF Sound
  <2> QED
    BY <1>3, <2>1 DEF Fail, rows, approvals, locals
<1> QED
  BY <1>1, <1>2, <1>3 DEF Quiet

\* They keep the tally: no run that has a reply to log loses it but by failing.
LEMMA QuietTally ==
  ASSUME IInv, TypeOK', NEW e \in Emails, Tally(e), NEW a \in Actors, Quiet(a)
  PROVE  Tally(e)'
<1>1. TypeOK /\ failures \in Nat /\ Moves(a) /\ sent' = sent /\ log' = log
  BY QuietStep DEF IInv, TypeOK
<1>2. CASE a \in Runs /\ (StartTick(a) \/ (RunStep(a) /\ ~Send(a) /\ ~LogDecision(a)))
  <2>1. failures' = failures \/ failures' = failures + 1
    BY <1>2
    DEF RunStep, StartTick, EndTick, Look, Evaluate, Notify, ReadTrust, Promote, Mark,
                rows, approvals, locals, bounds
  <2>2. a \notin Logging(e)
    BY <1>2
    DEF RunStep, StartTick, EndTick, Look, Evaluate, Notify, ReadTrust, Promote, Mark,
                Goto, Logging
  <2>3. pc'[a] # "auto_sent"
    BY <1>1, <1>2
    DEF RunStep, StartTick, EndTick, Look, Evaluate, Notify, ReadTrust, Promote,
                      Mark, Goto, Leave, Advance, TypeOK
  <2> QED
    BY <1>1, <2>1, <2>2, <2>3, TallyKept DEF Logging
<1>3. CASE a \in Operators /\ (StartFeedback(a) \/ SetOptIn(a) \/ OperatorStep(a))
  <2>1. a \notin Logging(e) /\ a \notin Logging(e)'
    BY <1>3, ActorsAssumption DEF Logging
  <2>2. failures' = failures
    BY <1>3 DEF StartFeedback, SetOptIn, OperatorStep, ReadTrust, Promote, WriteEdit, bounds
  <2> QED
    BY <1>1, <2>1, <2>2, TallyKept
<1>4. CASE Fail(a)
  <2>1. a \notin Logging(e)'
    BY <1>1, <1>4 DEF Fail, Leave, Logging, TypeOK
  <2>2. failures' = failures + 1
    BY <1>4 DEF Fail
  <2> QED
    BY <1>1, <2>1, <2>2, TallyKept
<1> QED
  BY <1>2, <1>3, <1>4 DEF Quiet

\* Nothing is sent, logged or marked at the start.
LEMMA LogInit == Init => LInv
<1> SUFFICES ASSUME Init PROVE LInv
  OBVIOUS
<1>1. ASSUME NEW e \in Emails PROVE Tally(e)
  <2>1. sent[e] = 0 /\ failures = 0 /\ log[e]["auto_sent"] = 0 /\ Logging(e) = {}
    BY <1>1 DEF Init, Logging, Actors, LogActions
  <2>2. Cardinality({}) = 0
    BY FS_EmptySet
  <2> QED
    BY <2>1, <2>2 DEF Tally
<1>2. \A r \in Runs : Decided(r)
  BY DEF Init, Decided, Actors
<1>3. ProcessedExplained
  BY DEF Init, ProcessedExplained
<1> QED
  BY <1>1, <1>2, <1>3, InitInv DEF LInv

\* What a step of process a has to show.
LEMMA LogInvStep ==
  ASSUME LInv, IInv', NEW a \in Actors, Moves(a), \A e \in Emails : Tally(e)',
         a \in Runs => StartTick(a) \/ RunStep(a) \/ Fail(a),
         log' = log \/ (a \in Runs /\ LogDecision(a)),
         processed' = processed \/ (a \in Runs /\ Mark(a))
  PROVE  LInv'
<1>1. IInv /\ TypeOK
  BY DEF LInv, IInv
<1>2. \A r \in Runs : Decided(r)'
  <2>1. ASSUME NEW r \in Runs PROVE Decided(r)'
    <3>1. Decided(r)
      BY DEF LInv
    <3>2. CASE r = a
      BY <1>1, <3>1, <3>2, DecidedStep
    <3>3. CASE r # a
      BY <1>1, <3>1, <3>3, DecidedKept
    <3> QED
      BY <3>2, <3>3
  <2> QED
    BY <2>1
<1>3. ASSUME NEW e \in Emails, NEW c \in Contents, <<e, c>> \in processed'
      PROVE  Explained(e, c)'
  <2>1. CASE <<e, c>> \in processed
    <3>1. Explained(e, c)
      BY <2>1 DEF LInv, ProcessedExplained, Explained
    <3>2. a \in Runs => Place(a)
      BY <1>1 DEF IInv
    <3> QED
      BY <1>1, <3>1, <3>2, LogSame, Explains
  <2>2. CASE <<e, c>> \notin processed
    <3>1. a \in Runs /\ Mark(a)
      BY <1>3, <2>2
    <3>2. pc[a] = "mark" /\ email[a] = e /\ content[a] = c /\ log' = log
      BY <1>3, <2>2, <3>1 DEF Mark
    <3>3. Explained(e, c)
      BY <3>1, <3>2 DEF LInv, Decided
    <3> QED
      BY <3>2, <3>3, LogSame
  <2> QED
    BY <2>1, <2>2
<1>4. ProcessedExplained'
  BY <1>3 DEF ProcessedExplained, Explained, KindOf
<1> QED
  BY <1>2, <1>4 DEF LInv

\* Every step keeps the tally, the runs' decisions and the explanations.
LEMMA LogStep == ASSUME LInv, [Next]_vars PROVE LInv'
<1>1. IInv /\ TypeOK /\ IInv' /\ TypeOK'
  BY InvStep DEF LInv, IInv
<1>2. CASE UNCHANGED vars
  <2>1. UNCHANGED <<processed, log, sent, pc, email, content, failures>>
    BY <1>2 DEF vars, rows, approvals, locals, bounds
  <2> QED
    BY <1>1, <2>1 DEF LInv, Tally, Logging, Decided, Explained, ProcessedExplained, KindOf
<1>3. ASSUME NEW r \in Runs, Send(r) PROVE LInv'
  <2>1. Moves(r) /\ r \in Actors
    BY <1>1, <1>3, QuietSound DEF Sound, Actors
  <2>2. \A e \in Emails : Tally(e)'
    BY <1>1, <1>3, <2>1, SendTally DEF LInv
  <2>3. log' = log /\ processed' = processed
    BY <1>3 DEF Send
  <2> QED
    BY <1>1, <1>3, <2>1, <2>2, <2>3, LogInvStep DEF RunStep
<1>4. ASSUME NEW r \in Runs, LogDecision(r) PROVE LInv'
  <2>1. Moves(r) /\ r \in Actors /\ Place(r)
    BY <1>1, <1>4, QuietSound DEF Sound, IInv, Actors
  <2>2. \A e \in Emails : Tally(e)'
    BY <1>1, <1>4, <2>1, LogTally DEF LInv
  <2>3. processed' = processed
    BY <1>4 DEF LogDecision
  <2> QED
    BY <1>1, <1>4, <2>1, <2>2, <2>3, LogInvStep DEF RunStep
<1>5. ASSUME NEW a \in Actors, Quiet(a) PROVE LInv'
  <2>1. a \in Runs => StartTick(a) \/ RunStep(a) \/ Fail(a)
    BY <1>5, ActorsAssumption DEF Quiet
  <2>2. \A e \in Emails : Tally(e)'
    BY <1>1, <1>5, QuietTally DEF LInv
  <2>3. Moves(a) /\ log' = log /\ (processed' = processed \/ (a \in Runs /\ Mark(a)))
    BY <1>1, <1>5, QuietStep
  <2> QED
    BY <1>1, <2>1, <2>2, <2>3, LogInvStep
<1> QED
  BY <1>2, <1>3, <1>4, <1>5 DEF Next, Quiet, Actors

\* What is in the log fits what was sent and what is marked, for any number of runs,
\* emails and failures.
THEOREM LogInvariance == Spec => []LInv
BY LogInit, LogStep, PTL DEF Spec

\* The decision log names no reply that was not delivered, and misses only those of
\* ticks on their way to log them or cut short there, for any number of each.
THEOREM LogIsTrue == Spec => []RepliesLogged
<1>1. LInv => RepliesLogged
  <2>1. SUFFICES ASSUME LInv, NEW e \in Emails
                 PROVE  /\ log[e]["auto_sent"] <= sent[e]
                        /\ sent[e] <= log[e]["auto_sent"] + failures + Cardinality(Logging(e))
    BY DEF RepliesLogged, Logging
  <2>2. Tally(e) /\ TypeOK
    BY <2>1 DEF LInv, IInv
  <2> QED
    BY <2>2, LogRows DEF Tally
<1> QED
  BY <1>1, LogInvariance, PTL

\* An email that the routine will not look at again has a decision in the log, and
\* the one its content calls for.
THEOREM MarksAreExplained == Spec => []ProcessedExplained
<1>1. LInv => ProcessedExplained
  BY DEF LInv
<1> QED
  BY <1>1, LogInvariance, PTL

=============================================================================
