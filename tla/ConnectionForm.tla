--------------------------- MODULE ConnectionForm ---------------------------
(***************************************************************************)
(* The dialog that creates and edits a connection                          *)
(* (src/frontend/src/design/boards/connections/NewConnectionDialog.tsx):   *)
(* its two steps, the test button and the Save button, against the         *)
(* connection service that stores a submission.  One profile is followed:  *)
(* what is stored, what the list last read, and the dialog.  ConnectionDrafts *)
(* says what each family's form collects.                                  *)
(*                                                                         *)
(* Bounds: MaxEdits events in the form since it was filled, MaxProbes tests *)
(* and MaxSaves saves under way, MaxWrites submissions stored.  Connections *)
(* of the families in Followed are also created and tested; those of the   *)
(* others are stored profiles that are edited.                             *)
(***************************************************************************)
EXTENDS ConnectionDrafts, Naturals

CONSTANTS MaxEdits, MaxProbes, MaxSaves, MaxWrites, Followed

VARIABLES
  stored,   \* the profile in the service: a set of at most one
  listed,   \* the profile as the connection list last read it
  dialog,   \* the dialog's state
  probes,   \* tests under way; live: the form they are about is still there
  saves,    \* saves under way
  writes    \* submissions stored so far

vars == <<stored, listed, dialog, probes, saves, writes>>

Steps == {"protocol", "form"}
Stages == {"sent", "stored", "refused"}
AllFields == {"name", "endpoints", "others", "v5", "proxy", "tls", "tlsCaFile", "tlsSkipVerify",
  "vhost", "admin", "tenant", "namespace", "several", "masterName", "db", "managementUrl",
  "wsPath", "sessionExpiry", "credsFile", "tlsCertFile", "tlsKeyFile", "amqpUrl", "region",
  "projectId", "keyName"}
AllSecrets == {"accessKey", "secretKey", "username", "password", "token", "managementKey",
  "managementSecret", "nkeySeed", "systemUser", "systemPassword", "amqpUsername",
  "amqpPassword", "credentialsJson", "sharedAccessKey", "connectionString"}
  \cup AwsKeys \cup Messaging \cup Rest

(* ---- Helpers --------------------------------------------------------- *)
SaveOf(id) == {s \in saves : s.id = id}
Current == IF dialog.editing THEN stored ELSE {}
Applied(d) == applyCredentialsMode(Current, toSubmission(d))
\* What a test dials: a profile without its name.
Dialled(p) == [p EXCEPT !.settings.filled = @ \ {"name"}]

\* The effect that runs when the dialog opens or its profile is a new object.
Opened(dg, step, draft) ==
  [dg EXCEPT !.step = step, !.draft = draft, !.edits = 0, !.probing = FALSE,
             !.verdict = {}, !.saving = FALSE]
\* The answer of a test of a form that is gone is not looked at.
Gone(p) == [live |-> FALSE, key |-> {}, on |-> {}, tested |-> {}]
resetProbe == probes' = {Gone(p) : p \in probes}
\* What a closed dialog holds is overwritten when it opens.
Closed(dg) ==
  [dg EXCEPT !.open = FALSE, !.step = "protocol", !.draft = emptyDraft("rocketmq"), !.edits = 0,
             !.editing = FALSE, !.verdict = {}]

(* ---- A form filled in completely, as the first profiles were --------- *)
FilledIn(d) ==
  [d EXCEPT !.filled = UNION {e.filled : e \in Form(d)} \ {"proxy", "several"},
            !.typed = UNION {e.typed : e \in Form(d)}]
FirstMechanisms(p) ==
  CASE p = "kafka" -> {"none", "sasl-scram"} [] p = "pulsar" -> {"none", "token"}
    [] p = "nats" -> NatsMechanisms
    [] p \in {"mqtt", "activemq", "ibmmq", "solace"} -> {"none", "plain"}
    [] OTHER -> {emptyDraft(p).mechanism}
FirstChoices(p) ==
  CASE p = "redis" -> {"standalone", "sentinel", "cluster"} [] p = "mqtt" -> {"tcp", "ws", "wss"}
    [] OTHER -> {emptyDraft(p).choice}
FullForm(p, mechanism, choice) ==
  FilledIn(FilledIn([emptyDraft(p) EXCEPT !.mechanism = mechanism, !.choice = choice]))
FirstDrafts(p) == {FullForm(p, m, c) : m \in FirstMechanisms(p), c \in FirstChoices(p)}
FirstProfiles ==
  {applyCredentialsMode({}, toSubmission(d)) : d \in UNION {FirstDrafts(p) : p \in Protocols}}

Init ==
  /\ stored \in {{}} \cup {{p} : p \in FirstProfiles}
  /\ listed = stored
  /\ dialog = [open |-> FALSE, editing |-> FALSE, step |-> "protocol",
               draft |-> emptyDraft("rocketmq"), edits |-> 0, probing |-> FALSE,
               verdict |-> {}, saving |-> FALSE]
  /\ probes = {}
  /\ saves = {}
  /\ writes = 0

(* ---- Opening, closing and the two steps ------------------------------ *)
OpenNew ==
  /\ ~dialog.open /\ listed = {}
  /\ \/ dialog' = Opened([dialog EXCEPT !.open = TRUE, !.editing = FALSE], "protocol",
                         emptyDraft("rocketmq"))
     \/ \E p \in Followed :
          dialog' = Opened([dialog EXCEPT !.open = TRUE, !.editing = FALSE], "form", emptyDraft(p))
  /\ resetProbe
  /\ UNCHANGED <<stored, listed, saves, writes>>

OpenEdit ==
  /\ ~dialog.open
  /\ \E p \in listed :
       dialog' = Opened([dialog EXCEPT !.open = TRUE, !.editing = TRUE], "form", toDraft(p))
  /\ resetProbe
  /\ UNCHANGED <<stored, listed, saves, writes>>

Close ==
  /\ dialog.open
  /\ dialog' = Closed(dialog)
  /\ UNCHANGED <<stored, listed, probes, saves, writes>>

Pick ==
  /\ dialog.open /\ dialog.step = "protocol"
  /\ \E p \in Followed :
       dialog' = [dialog EXCEPT !.draft = emptyDraft(p), !.edits = 0, !.probing = FALSE,
                                !.verdict = {}, !.step = "form"]
  /\ resetProbe
  /\ UNCHANGED <<stored, listed, saves, writes>>

Back ==
  /\ dialog.open /\ dialog.step = "form" /\ ~dialog.editing
  /\ dialog' = [dialog EXCEPT !.step = "protocol"]
  /\ UNCHANGED <<stored, listed, probes, saves, writes>>

Edit ==
  /\ dialog.open /\ dialog.step = "form" /\ dialog.edits < MaxEdits
  /\ \E d \in Form(dialog.draft) :
       dialog' = [dialog EXCEPT !.draft = d, !.edits = @ + 1]
  /\ UNCHANGED <<stored, listed, probes, saves, writes>>

\* Filling in everything a new connection's form shows, in one step.
FillIn ==
  /\ dialog.open /\ dialog.step = "form" /\ ~dialog.editing /\ dialog.edits = 0
  /\ dialog' = [dialog EXCEPT !.draft = FilledIn(dialog.draft)]
  /\ UNCHANGED <<stored, listed, probes, saves, writes>>

(* ---- Testing --------------------------------------------------------- *)
runProbe ==
  /\ dialog.open /\ dialog.step = "form" /\ Valid(dialog.draft) /\ ~dialog.probing
  /\ Cardinality(probes) < MaxProbes /\ dialog.draft.protocol \in Followed
  /\ dialog' = [dialog EXCEPT !.probing = TRUE]
  /\ probes' = {Gone(p) : p \in probes}
                 \cup {[key |-> {probeKey(dialog.draft)}, on |-> Current,
                        tested |-> {Dialled(Applied(dialog.draft))}, live |-> TRUE]}
  /\ UNCHANGED <<stored, listed, saves, writes>>

\* The answer to a test, after the spinner's shortest time.
ProbeAnswers ==
  \E p \in probes :
    /\ probes' = probes \ {p}
    /\ dialog' = IF p.live
                 THEN [dialog EXCEPT !.verdict = {[key |-> p.key, on |-> p.on, tested |-> p.tested]},
                                     !.probing = FALSE]
                 ELSE dialog
    /\ UNCHANGED <<stored, listed, saves, writes>>

(* ---- Saving ---------------------------------------------------------- *)
Save ==
  /\ dialog.open /\ dialog.step = "form" /\ Valid(dialog.draft) /\ ~dialog.saving
  /\ \E id \in 1..MaxSaves :
       /\ SaveOf(id) = {}
       /\ saves' = saves \cup {[id |-> id, draft |-> dialog.draft, editing |-> dialog.editing,
                                stage |-> "sent"]}
  /\ dialog' = [dialog EXCEPT !.saving = TRUE]
  /\ UNCHANGED <<stored, listed, probes, writes>>

\* The service stores the submission, or refuses it.
Store ==
  \E s \in saves :
    /\ s.stage = "sent"
    /\ LET current == IF s.editing THEN stored ELSE {}
           profile == applyCredentialsMode(current, toSubmission(s.draft))
       IN \/ /\ normalizeACLConfig(profile)
             /\ s.editing \/ stored = {}
             /\ writes < MaxWrites
             /\ writes' = writes + 1
             /\ stored' = {profile}
             /\ saves' = (saves \ {s}) \cup {[s EXCEPT !.stage = "stored"]}
          \/ /\ saves' = (saves \ {s}) \cup {[s EXCEPT !.stage = "refused"]}
             /\ UNCHANGED <<stored, writes>>
    /\ UNCHANGED <<listed, dialog, probes>>

\* The list is read again, and a profile being edited is then a new object.
Reload ==
  /\ listed' = stored
  /\ IF dialog.open /\ dialog.editing
     THEN /\ \E p \in stored : dialog' = Opened(dialog, "form", toDraft(p))
          /\ resetProbe
     ELSE UNCHANGED <<dialog, probes>>
  /\ UNCHANGED <<stored, saves, writes>>

\* A save that was stored reads the list and closes the dialog, whichever
\* opening of it is on the screen.  Both land in one rendering, so the form is
\* not filled in again first.
SaveDone ==
  \E s \in saves :
    /\ s.stage = "stored"
    /\ saves' = saves \ {s}
    /\ listed' = stored
    /\ dialog' = [Closed(dialog) EXCEPT !.saving = FALSE]
    /\ UNCHANGED <<stored, probes, writes>>

\* A refusal, or an error reported after the profile was stored, stays on the form.
SaveFailed ==
  \E s \in saves :
    /\ s.stage \in {"refused", "stored"}
    /\ saves' = saves \ {s}
    /\ dialog' = [dialog EXCEPT !.saving = FALSE]
    /\ UNCHANGED <<stored, listed, probes, writes>>

Next ==
  \/ OpenNew \/ OpenEdit \/ Close \/ Pick \/ Back \/ Edit \/ FillIn
  \/ runProbe \/ ProbeAnswers
  \/ Save \/ Store \/ Reload \/ SaveDone \/ SaveFailed

Spec == Init /\ [][Next]_vars

(* ---- Properties ------------------------------------------------------ *)
\* The shape of the dialog's state and of what it hands out.
TypeOK ==
  /\ Cardinality(stored) <= 1 /\ Cardinality(listed) <= 1
  /\ \A p \in stored \cup listed :
       /\ p.settings.protocol \in Protocols
       /\ p.settings.filled \subseteq AllFields /\ p.secrets \subseteq AllSecrets
  /\ dialog.step \in Steps /\ dialog.edits \in 0..MaxEdits
  /\ Cardinality(dialog.verdict) <= 1
  /\ \A s \in saves : s.id \in 1..MaxSaves /\ s.stage \in Stages
  /\ \A s, t \in saves : s.id = t.id => s = t

\* NewConnectionDialog.tsx (runProbe, resetProbe): the spinner beside the test
\* button turns exactly while a test of the form on the screen is under way,
\* through reopening, another protocol and a list read behind the dialog.
ProbingHasProbe == dialog.probing <=> \E p \in probes : p.live

\* NewConnectionDialog.tsx (draftKey, current): a verdict on the screen is about
\* the very profile that saving the form now would store, its resolved
\* credentials included, while the profile it was resolved against is the stored one.
VerdictIsOfTheForm ==
  dialog.open /\ dialog.step = "form" =>
    \A v \in dialog.verdict :
      v.key = {probeKey(dialog.draft)} /\ v.on = Current =>
        v.tested = {Dialled(Applied(dialog.draft))}

\* connectionDraft.ts: opening a stored profile and saving it untouched stores
\* what was there, secrets included.  Left out are the fields a blank reads back
\* as a default (a WebSocket path and a key name); a profile that a form already
\* out of date left saying it authenticates with no secret to send; and a NATS
\* profile saved with its credentials cleared under a mechanism with files, which
\* is stored anonymous with those files, and is shown without them.
DerivedMechanism == {"rocketmq", "redis", "sqs", "google-pubsub", "azure-servicebus", "kinesis"}
Consistent(p) ==
  /\ p.settings.protocol \in DerivedMechanism => (p.settings.mechanism = "none" <=> p.secrets = {})
  /\ p.settings.protocol = "nats" /\ p.settings.mechanism = "none" =>
       /\ p.settings.filled \cap NatsOwnFiles = {}
       /\ "tls" \in p.settings.filled \/ p.settings.filled \cap TlsExtras = {}
UntouchedEditKeeps ==
  dialog.open /\ dialog.editing /\ dialog.edits = 0 /\ listed = stored /\ Valid(dialog.draft) =>
    \A p \in stored :
      Consistent(p) =>
        LET Plain(f) == f \ {"wsPath", "keyName"}
            again == Applied(dialog.draft)
        IN /\ again.secrets = p.secrets
           /\ [again.settings EXCEPT !.filled = Plain(@)] = [p.settings EXCEPT !.filled = Plain(@)]

\* The families whose submission keeps every secret left blank, whatever the mechanism.
KeepsEveryBlank == {"mqtt", "nats", "activemq", "ibmmq", "solace"}

\* connectionDraft.ts, bridge/connection.go: outside those families, a connection that
\* became anonymous keeps no secret.  Inside them it keeps what was stored, a blank being
\* sent with 'preserve' (bridge/connection.go:133-148): what a change of mechanism or an
\* emptied address leaves behind stays on disk, although connectionDraft.ts:553-556,
\* 857-859 and 1238-1240 say that it is dropped.
AnonymousHasNoSecret ==
  \A p \in stored :
    p.settings.mechanism = "none" /\ p.settings.protocol \notin KeepsEveryBlank
    => p.secrets = {}

=============================================================================
