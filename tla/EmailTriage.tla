---------------------------- MODULE EmailTriage ----------------------------
(***************************************************************************)
(* The email_triage routine: one tick of ota_routines/email_triage/run.py, *)
(* the tables of state.py it works on and the trust policy of helpers.py.  *)
(*                                                                         *)
(* A run of the routine and an operator's feedback are separate processes  *)
(* on the framework's SQLite file: every statement or transaction of       *)
(* state.py is one atomic step, and so is every call of the mail adapter;  *)
(* anything may happen between two of them.  A step that raises, and a     *)
(* crash, both end the tick where it is, and with it the loop that started *)
(* it: a run keeps nothing in memory from one tick to the next.            *)
(***************************************************************************)
EXTENDS Naturals, FiniteSets

CONSTANTS
  Runs,         (* processes that run ticks of the routine                 *)
  Operators,    (* processes that give the operator's feedback             *)
  Templates,    (* the reply templates of the configuration                *)
  Allowed,      (* config auto_send.allowed_templates                      *)
  NumEmails,    (* emails in the folder, numbered as list_mailbox lists    *)
                (* them                                                    *)
  PageLimit,    (* limit of the one page a tick lists: 25 in the code      *)
  TemplateOf,   (* what the classifier and the configuration make of an    *)
                (* email: a template, or one of the two kinds below        *)
  Skip,         (* no keyword matches                                      *)
  Unknown,      (* the category names no configured template               *)
  Poison,       (* emails whose draft raises every time                    *)
  Threshold,    (* trust_threshold: 20 in the code                         *)
  NoTemplate,   (* the process works on no template                        *)
  MaxFailures,  (* bound: steps that raise, crashes included               *)
  MaxMisses,    (* bound: bodies the pre-fetch did not deliver             *)
  MaxFeedback   (* bound: calls operators make                             *)

Actors == Runs \cup Operators
Emails == 1..NumEmails

ASSUME ActorsAssumption == Runs \cap Operators = {} /\ IsFiniteSet(Runs)

ASSUME ConfigAssumption ==
  /\ NumEmails \in Nat /\ PageLimit \in Nat /\ Threshold \in Nat \ {0}
  /\ Allowed \subseteq Templates
  /\ NoTemplate \notin Templates
  /\ Skip \notin Templates /\ Unknown \notin Templates /\ Skip # Unknown
  /\ TemplateOf \in [Emails -> Templates \cup {Skip, Unknown}]
  /\ Poison \subseteq Emails

ASSUME BoundsAssumption == MaxFailures \in Nat /\ MaxMisses \in Nat /\ MaxFeedback \in Nat

VARIABLES
  trust,      (* email_triage_template_trust                               *)
  edits,      (* email_triage_edits: operator edits of each template       *)
  processed,  (* email_triage_processed: (email_id, content_hash) pairs    *)
  log,        (* email_triage_decisions: rows per email and action         *)
  sent,       (* replies the mail adapter delivered to each email          *)
  pc,         (* what each process does next                               *)
  email,      (* the position of a run in its page                         *)
  content,    (* the content a run hashed                                  *)
  template,   (* the template a process works on                           *)
  read,       (* the trust row a process has read                          *)
  ended,      (* runs whose loop an exception has ended                    *)
  granted,    (* history: templates that were ever opted in                *)
  streak,     (* history: approvals of each template since its last edit   *)
  known,      (* history: the edits there were when a process last read    *)
  undone,     (* history: templates whose last edit was written over by an *)
              (* approval that had read the row before it                  *)
  failures, misses, feedback  (* what has been used of the bounds          *)

approvals == <<granted, streak, undone>>
rows == <<trust, edits, processed, log, sent, approvals>>
locals == <<email, content, template, read, known>>
bounds == <<failures, misses, feedback>>
vars == <<rows, pc, locals, ended, bounds>>

TrustRows == [count : Nat, total : Nat, auto : BOOLEAN, optin : BOOLEAN, demoted : BOOLEAN]

\* What _ensure_trust_row inserts; a missing row reads as this one.
NewRow == [count |-> 0, total |-> 0, auto |-> FALSE, optin |-> FALSE, demoted |-> FALSE]

\* The content hash of an email whose body was pre-fetched, or was not.
Contents == {"full", "empty"}

LogActions == {"skipped", "auto_sent", "drafted"}

Labels == {"idle", "look", "evaluate", "send", "notify", "skipped", "auto_sent",
           "drafted", "approve", "promote", "mark", "edit"}

TypeOK ==
  /\ trust \in [Templates -> TrustRows]
  /\ edits \in [Templates -> Nat]
  /\ processed \subseteq Emails \X Contents
  /\ log \in [Emails -> [LogActions -> Nat]]
  /\ sent \in [Emails -> Nat]
  /\ pc \in [Actors -> Labels]
  /\ email \in [Actors -> Nat]
  /\ content \in [Actors -> Contents]
  /\ template \in [Actors -> Templates \cup {NoTemplate}]
  /\ read \in [Actors -> TrustRows]
  /\ known \in [Actors -> Nat]
  /\ ended \subseteq Runs
  /\ granted \subseteq Templates /\ undone \subseteq Templates
  /\ streak \in [Templates -> Nat]
  /\ failures \in 0..MaxFailures /\ misses \in 0..MaxMisses /\ feedback \in 0..MaxFeedback

Init ==
  /\ trust = [t \in Templates |-> NewRow]
  /\ edits = [t \in Templates |-> 0]
  /\ processed = {}
  /\ log = [e \in Emails |-> [a \in LogActions |-> 0]]
  /\ sent = [e \in Emails |-> 0]
  /\ pc = [a \in Actors |-> "idle"]
  /\ email = [a \in Actors |-> 0]
  /\ content = [a \in Actors |-> "full"]
  /\ template = [a \in Actors |-> NoTemplate]
  /\ read = [a \in Actors |-> NewRow]
  /\ known = [a \in Actors |-> 0]
  /\ ended = {} /\ granted = {} /\ undone = {}
  /\ streak = [t \in Templates |-> 0]
  /\ failures = 0 /\ misses = 0 /\ feedback = 0

Goto(a, from, to) == pc[a] = from /\ pc' = [pc EXCEPT ![a] = to]

\* The process is done with its call and forgets what it read.
Leave(a) ==
  /\ pc' = [pc EXCEPT ![a] = "idle"]
  /\ email' = [email EXCEPT ![a] = 0]
  /\ content' = [content EXCEPT ![a] = "full"]
  /\ template' = [template EXCEPT ![a] = NoTemplate]
  /\ read' = [read EXCEPT ![a] = NewRow]
  /\ known' = [known EXCEPT ![a] = 0]

\* A call of the run raises.  The engine raises the exception again, and the task
\* of the scheduler's loop ends with it: start() does not replace it.
Raised(r) == ended' = ended \cup {r}

\* The run is done with its email: on to the next one of the page.
Advance(r) ==
  /\ pc' = [pc EXCEPT ![r] = "look"]
  /\ email' = [email EXCEPT ![r] = @ + 1]
  /\ content' = [content EXCEPT ![r] = "full"]
  /\ template' = [template EXCEPT ![r] = NoTemplate]
  /\ read' = [read EXCEPT ![r] = NewRow]
  /\ known' = [known EXCEPT ![r] = 0]

-----------------------------------------------------------------------------
(* run: a tick                                                             *)

\* opt_in_auto_send of each of a set of templates.
OptIn(templates) ==
  /\ trust' = [t \in Templates |->
                 IF t \in templates THEN [trust[t] EXCEPT !.optin = TRUE] ELSE trust[t]]
  /\ granted' = granted \cup templates

\* TrustPromotion opts the templates of the allowlist in, again at each tick and
\* each in a transaction of its own; then list_mailbox returns the first page,
\* without a cursor.  A tick cut short on the way has opted some of them in.  A run
\* whose loop has ended is started by trigger(), or after a restart.
StartTick(r) ==
  /\ \/ /\ Goto(r, "idle", "look")
        /\ OptIn(Allowed)
        /\ email' = [email EXCEPT ![r] = 1]
        /\ UNCHANGED <<ended, failures>>
     \/ /\ pc[r] = "idle"
        /\ \E some \in SUBSET Allowed : OptIn(some)
        /\ failures < MaxFailures
        /\ failures' = failures + 1
        /\ Raised(r)
        /\ UNCHANGED <<pc, email>>
  /\ UNCHANGED <<edits, processed, log, sent, streak, undone, content, template, read, known,
                 misses, feedback>>

InPage(e) == e <= NumEmails /\ e <= PageLimit

\* The end of the page ends the tick.
EndTick(r) ==
  /\ pc[r] = "look"
  /\ ~InPage(email[r])
  /\ Leave(r)
  /\ UNCHANGED <<rows, ended, bounds>>

\* Faulty variant: the lookup finds nothing.
SeenNever(e, c) == FALSE

\* is_processed.
Seen(e, c) == <<e, c>> \in processed

\* What the classifier makes of what it can see: an empty body matches no keyword.
KindOf(e, c) == IF c = "empty" THEN Skip ELSE TemplateOf[e]

\* is_processed and the classification of the next email of the page.  The body
\* comes from the engine's pre-fetch or, missing there, is the empty string.
Look(r) ==
  LET e == email[r] IN
  /\ pc[r] = "look"
  /\ InPage(e)
  /\ \E c \in Contents :
       /\ c = "empty" => misses < MaxMisses
       /\ misses' = IF c = "empty" THEN misses + 1 ELSE misses
       /\ \/ /\ Seen(e, c) \/ KindOf(e, c) = Unknown
             /\ Advance(r)
             /\ UNCHANGED ended
          \/ /\ ~Seen(e, c)
             /\ KindOf(e, c) = Skip
             /\ pc' = [pc EXCEPT ![r] = "skipped"]
             /\ content' = [content EXCEPT ![r] = c]
             /\ UNCHANGED <<email, template, read, known, ended>>
          \/ /\ ~Seen(e, c)
             /\ KindOf(e, c) \in Templates
             /\ IF e \in Poison
                THEN Leave(r) /\ Raised(r)
                ELSE /\ pc' = [pc EXCEPT ![r] = "evaluate"]
                     /\ content' = [content EXCEPT ![r] = c]
                     /\ template' = [template EXCEPT ![r] = KindOf(e, c)]
                     /\ UNCHANGED <<email, read, known, ended>>
  /\ UNCHANGED <<rows, failures, feedback>>

\* TrustPromotion.evaluate on the row it read.
AutoSend(t, row) ==
  row.auto \/ ((row.optin \/ t \in Allowed) /\ row.count >= Threshold)

Evaluate(r) ==
  LET row == trust[template[r]] IN
  /\ Goto(r, "evaluate", IF AutoSend(template[r], row) THEN "send" ELSE "notify")
  /\ read' = [read EXCEPT ![r] = row]
  /\ UNCHANGED <<rows, email, content, template, known, ended, bounds>>

\* Faulty variant: the adapter swallows an error and nothing is sent.
SendNothing(r) ==
  /\ Goto(r, "send", "auto_sent")
  /\ UNCHANGED <<rows, locals, ended, bounds>>

\* send_email: the mail is out, whatever happens to the tick afterwards.
Send(r) ==
  /\ Goto(r, "send", "auto_sent")
  /\ sent' = [sent EXCEPT ![email[r]] = @ + 1]
  /\ UNCHANGED <<trust, edits, processed, log, approvals, locals, ended, bounds>>

\* Faulty variant: a draft shown to the operator is not logged.
NotifyUnlogged(r) ==
  /\ Goto(r, "notify", "mark")
  /\ UNCHANGED <<rows, locals, ended, bounds>>

\* Faulty variant: the tick stops to wait for the operator.
NotifyAndStop(r) == pc[r] = "notify" /\ Leave(r) /\ UNCHANGED <<rows, ended, bounds>>

\* The draft is shown in the approval channel: nothing waits for an answer.
Notify(r) ==
  /\ Goto(r, "notify", "drafted")
  /\ UNCHANGED <<rows, locals, ended, bounds>>

\* record_decision: the action is the label the run has reached.  An automatic
\* reply then counts as an approval of its template.
LogDecision(r) ==
  /\ pc[r] \in LogActions
  /\ log' = [log EXCEPT ![email[r]][pc[r]] = @ + 1]
  /\ pc' = [pc EXCEPT ![r] = IF pc[r] = "auto_sent" THEN "approve" ELSE "mark"]
  /\ UNCHANGED <<trust, edits, processed, sent, approvals, locals, ended, bounds>>

\* mark_processed: a second INSERT of the pair changes nothing.
Mark(r) ==
  /\ pc[r] = "mark"
  /\ processed' = processed \cup {<<email[r], content[r]>>}
  /\ Advance(r)
  /\ UNCHANGED <<trust, edits, log, sent, approvals, ended, bounds>>

-----------------------------------------------------------------------------
(* EmailTriageState: template trust                                        *)

\* record_unedited_approval reads the row outside the transaction ...
ReadTrust(a) ==
  /\ Goto(a, "approve", "promote")
  /\ read' = [read EXCEPT ![a] = trust[template[a]]]
  /\ known' = [known EXCEPT ![a] = edits[template[a]]]
  /\ UNCHANGED <<rows, email, content, template, ended, bounds>>

\* The auto_send_enabled it will write.
Promoted(row) == row.auto \/ (row.optin /\ row.count + 1 >= Threshold)

\* ... and writes what follows from it: the streak and the promotion are
\* absolute values, total_sent is incremented in place.
PromotedRow(row, seen) ==
  [row EXCEPT !.count = seen.count + 1, !.total = @ + 1, !.auto = Promoted(seen)]

\* The template was edited after the process read its row.
Outdated(a) == known[a] # edits[template[a]]

Promote(a) ==
  /\ pc[a] = "promote"
  /\ trust' = [trust EXCEPT ![template[a]] = PromotedRow(@, read[a])]
  /\ streak' = [streak EXCEPT ![template[a]] = @ + 1]
  /\ undone' = IF Outdated(a) THEN undone \cup {template[a]} ELSE undone
  /\ \/ a \in Operators /\ Leave(a)
     \/ a \in Runs /\ Goto(a, "promote", "mark") /\ UNCHANGED locals
  /\ UNCHANGED <<edits, processed, log, sent, granted, ended, bounds>>

\* An operator approves a draft of template t as it is, or edits it: record_edit
\* reads the row first.
StartFeedback(o) ==
  /\ feedback < MaxFeedback
  /\ feedback' = feedback + 1
  /\ \E t \in Templates :
       /\ template' = [template EXCEPT ![o] = t]
       /\ \/ Goto(o, "idle", "approve") /\ UNCHANGED read
          \/ Goto(o, "idle", "edit") /\ read' = [read EXCEPT ![o] = trust[t]]
  /\ UNCHANGED <<rows, email, content, known, ended, failures, misses>>

\* Faulty variant: the edit takes one approval off the streak.
EditedRowMinusOne(row, seen) == [row EXCEPT !.count = @ - 1, !.auto = FALSE]

\* Faulty variant: the edit demotes and leaves the streak as it was.
EditedRowKept(row, seen) == [row EXCEPT !.auto = FALSE, !.demoted = seen.auto \/ seen.demoted]

\* The row after an edit; demoted_at comes from the row that was read.
EditedRow(row, seen) ==
  [row EXCEPT !.count = 0, !.auto = FALSE, !.demoted = seen.auto \/ seen.demoted]

\* record_edit's transaction: the edit is logged and the template demoted.
WriteEdit(o) ==
  /\ pc[o] = "edit"
  /\ edits' = [edits EXCEPT ![template[o]] = @ + 1]
  /\ trust' = [trust EXCEPT ![template[o]] = EditedRow(@, read[o])]
  /\ streak' = [streak EXCEPT ![template[o]] = 0]
  /\ undone' = undone \ {template[o]}
  /\ Leave(o)
  /\ UNCHANGED <<processed, log, sent, granted, ended, bounds>>

\* opt_in_auto_send: the promotion the template already has is not touched.
SetOptIn(o) ==
  /\ pc[o] = "idle"
  /\ feedback < MaxFeedback
  /\ feedback' = feedback + 1
  /\ \E t \in Templates, enabled \in BOOLEAN :
       /\ trust' = [trust EXCEPT ![t].optin = enabled]
       /\ granted' = IF enabled THEN granted \cup {t} ELSE granted
  /\ UNCHANGED <<edits, processed, log, sent, streak, undone, pc, locals, ended>>
  /\ UNCHANGED <<failures, misses>>

-----------------------------------------------------------------------------
\* A call raises, or the process dies, between any two steps.
Fail(a) ==
  /\ failures < MaxFailures
  /\ failures' = failures + 1
  /\ pc[a] # "idle"
  /\ Leave(a)
  /\ IF a \in Runs THEN Raised(a) ELSE UNCHANGED ended
  /\ UNCHANGED <<rows, misses, feedback>>

\* A tick that has started goes on.
RunStep(r) ==
  \/ EndTick(r) \/ Look(r) \/ Evaluate(r) \/ Send(r) \/ Notify(r)
  \/ LogDecision(r) \/ ReadTrust(r) \/ Promote(r) \/ Mark(r)

OperatorStep(o) == ReadTrust(o) \/ Promote(o) \/ WriteEdit(o)

Next ==
  \/ \E r \in Runs : StartTick(r) \/ RunStep(r)
  \/ \E o \in Operators : StartFeedback(o) \/ SetOptIn(o) \/ OperatorStep(o)
  \/ \E a \in Actors : Fail(a)

\* The scheduler's loop starts tick after tick until one of them raises, and a tick
\* goes on to its end.  Nothing starts a run whose loop has ended, and nothing makes
\* an operator answer.
Fairness ==
  \A r \in Runs :
    /\ WF_vars(r \notin ended /\ StartTick(r))
    /\ WF_vars(RunStep(r))

Spec == Init /\ [][Next]_vars /\ Fairness

-----------------------------------------------------------------------------
(* Properties                                                              *)

\* Overlapping ticks and ticks cut short answer an email again, and nothing
\* else does: each run answers it once, and once more per failure.
RepliesBounded == \A e \in Emails : sent[e] <= Cardinality(Runs) + failures

\* The decision log, which /why and the drift detector read, runs behind the
\* mailbox: it names no reply that was not delivered, and misses only those
\* of ticks still on their way to log them or cut short there.
RepliesLogged ==
  \A e \in Emails :
    LET logging == {r \in Runs : pc[r] = "auto_sent" /\ email[r] = e} IN
    /\ log[e]["auto_sent"] <= sent[e]
    /\ sent[e] <= log[e]["auto_sent"] + failures + Cardinality(logging)

\* An email is never put aside unexplained: one the routine will not look at
\* again has a decision in the log, and the one its content calls for.
ProcessedExplained ==
  \A e \in Emails : \A c \in Contents :
    <<e, c>> \in processed =>
      IF KindOf(e, c) = Skip
      THEN log[e]["skipped"] > 0
      ELSE log[e]["auto_sent"] + log[e]["drafted"] > 0

\* What stands behind a template that sends by itself, whatever the races between
\* approvals, edits, opt-ins and opt-outs: it was opted in at some time, and
\* Threshold approvals have been recorded since its last edit.  One race alone takes
\* the second away: an approval that has read the row before that edit and is written
\* after it (state.py:227-250) undoes the edit, until the next one.
PromotionEarned ==
  \A t \in Templates :
    /\ trust[t].auto => t \in granted /\ trust[t].count >= Threshold
    /\ t \notin undone =>
         trust[t].count <= streak[t] /\ (trust[t].auto => streak[t] >= Threshold)
    /\ trust[t].count <= trust[t].total

\* Every email of the page for which the configuration has an answer, and which no
\* email whose draft raises precedes, is dealt with in the end, unless each loop
\* has been ended by a failure or, past this email with its body missing, by one of
\* those behind it.  A loop that still runs comes back to it, whatever the others do.
PageHandled ==
  \A e \in Emails :
    (InPage(e) /\ TemplateOf[e] # Unknown /\ \A p \in Poison : p > e)
      => <>(<<e, "full">> \in processed \/ failures + misses >= Cardinality(Runs))

-----------------------------------------------------------------------------
(* What the documentation says, refuted by the code                        *)

\* state.py: the processed table is there "so we don't re-draft on adapter
\* retry": no email is answered twice.
AnsweredOnce == \A e \in Emails : sent[e] <= 1

\* docs/phase-4-notes.md: "Editing demotes immediately": a template sends by itself
\* only after Threshold approvals since its last edit.
EditDemotes == \A t \in Templates : trust[t].auto => streak[t] >= Threshold

\* helpers.py, SendDecision: "`auto_send` is true only when the template has
\* opt-in + threshold met", the opt-in being the operator's or the allowlist's.
AutoSendOptedIn ==
  \A r \in Runs : pc[r] = "send" =>
    (read[r].optin \/ template[r] \in Allowed) /\ read[r].count >= Threshold

=============================================================================
