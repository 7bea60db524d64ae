-------------------------- MODULE ConnectionDrafts --------------------------
(***************************************************************************)
(* What the connection dialog collects for each family, and how it is      *)
(* turned into what the connection service stores and back                 *)
(* (src/frontend/src/design/boards/connections).                           *)
(*                                                                         *)
(* A draft says which text fields are filled in and which switches are on  *)
(* (filled), which secrets were typed, the mechanism, the one further      *)
(* choice some families have (choice), whether the profile has stored      *)
(* credentials, and whether the clear control was used.  A stored secret   *)
(* never comes back to the form, so a blank one says nothing by itself:    *)
(* the submission carries a mode that tells the service how to read it.    *)
(* The optional fields of a family that no rule reads are one field,       *)
(* "others".  The wording of a value and the checks of its format, the     *)
(* timeout, the group and the remark are left out.                         *)
(***************************************************************************)
EXTENDS FiniteSets

Protocols == {"rocketmq", "kafka", "rabbitmq", "pulsar", "redis", "mqtt", "nats",
              "activemq", "nsq", "sqs", "google-pubsub", "azure-servicebus",
              "kinesis", "ibmmq", "solace"}
TlsExtras == {"tlsCaFile", "tlsSkipVerify"}
Login == {"username", "password"}

(* ---- Drafts ---------------------------------------------------------- *)
Empty(p, mechanism, choice, filled) ==
  [protocol |-> p, mechanism |-> mechanism, choice |-> choice, filled |-> filled,
   typed |-> {}, stored |-> FALSE, clear |-> FALSE]

emptyRocketMQDraft == Empty("rocketmq", "none", "-", {"v5"})
emptyKafkaDraft == Empty("kafka", "none", "-", {})
emptyRabbitMQDraft == Empty("rabbitmq", "plain", "-", {"vhost"})
emptyPulsarDraft == Empty("pulsar", "none", "-", {"tenant", "namespace"})
emptyRedisDraft == Empty("redis", "none", "standalone", {})
emptyMqttDraft == Empty("mqtt", "none", "tcp", {"v5", "wsPath"})
emptyNatsDraft == Empty("nats", "none", "-", {})
emptyActiveMQDraft == Empty("activemq", "plain", "-", {})
emptyNsqDraft == Empty("nsq", "none", "-", {})
emptySqsDraft == Empty("sqs", "none", "-", {})
emptyGooglePubSubDraft == Empty("google-pubsub", "none", "-", {})
emptyAzureServiceBusDraft == Empty("azure-servicebus", "none", "-", {"keyName"})
emptyKinesisDraft == Empty("kinesis", "none", "-", {})
emptyIbmMqDraft == Empty("ibmmq", "plain", "-", {})
emptySolaceDraft == Empty("solace", "plain", "-", {})

emptyDraft(p) ==
  CASE p = "rabbitmq" -> emptyRabbitMQDraft
    [] p = "kafka" -> emptyKafkaDraft
    [] p = "pulsar" -> emptyPulsarDraft
    [] p = "redis" -> emptyRedisDraft
    [] p = "mqtt" -> emptyMqttDraft
    [] p = "nats" -> emptyNatsDraft
    [] p = "activemq" -> emptyActiveMQDraft
    [] p = "nsq" -> emptyNsqDraft
    [] p = "sqs" -> emptySqsDraft
    [] p = "google-pubsub" -> emptyGooglePubSubDraft
    [] p = "azure-servicebus" -> emptyAzureServiceBusDraft
    [] p = "kinesis" -> emptyKinesisDraft
    [] p = "ibmmq" -> emptyIbmMqDraft
    [] p = "solace" -> emptySolaceDraft
    [] OTHER -> emptyRocketMQDraft

keepStored(d) == d.stored /\ ~d.clear
Unless(cond, fields) == IF cond THEN {} ELSE fields
Toggled(s, x) == IF x \in s THEN s \ {x} ELSE s \cup {x}

(* ---- Forms: the drafts one event away -------------------------------- *)
Typing(d, fields) == {[d EXCEPT !.filled = Toggled(@, f)] : f \in fields}
Secrets(d, secrets) == {[d EXCEPT !.typed = Toggled(@, s)] : s \in secrets}
ClearLink(d) == IF keepStored(d) THEN {[d EXCEPT !.clear = TRUE]} ELSE {}
SwitchTls(d, extras) ==
  IF "tls" \in d.filled THEN {[d EXCEPT !.filled = @ \ ({"tls"} \cup extras)]}
                        ELSE {[d EXCEPT !.filled = @ \cup {"tls"}]}
\* Choosing a mechanism blanks the login it does not use.
Mechanism(d, mechanisms) ==
  {[d EXCEPT !.mechanism = m, !.typed = @ \ Unless(m # "none", Login)] : m \in mechanisms}

RocketMQForm(d) ==
  Typing(d, {"name", "endpoints", "others"}) \cup Secrets(d, {"accessKey", "secretKey"})
    \cup ClearLink(d)
    \cup (IF "v5" \in d.filled
          THEN Typing(d, {"proxy"}) \cup {[d EXCEPT !.filled = @ \ {"v5", "proxy"}]}
          ELSE Typing(d, {"v5"}))

KafkaForm(d) ==
  Typing(d, {"name", "endpoints"} \cup Unless(d.mechanism # "sasl-scram", {"others"})
              \cup Unless("tls" \notin d.filled, TlsExtras))
    \cup Mechanism(d, {"none", "sasl-plain", "sasl-scram"})
    \cup SwitchTls(d, TlsExtras)
    \cup (IF d.mechanism = "none" THEN {} ELSE Secrets(d, Login) \cup ClearLink(d))

RabbitMQForm(d) ==
  Typing(d, {"name", "endpoints", "vhost", "others"}
              \cup Unless("tls" \notin d.filled, {"tlsSkipVerify"}))
    \cup Secrets(d, Login) \cup ClearLink(d) \cup SwitchTls(d, {"tlsSkipVerify"})

PulsarForm(d) ==
  Typing(d, {"name", "endpoints", "admin", "tenant", "namespace"}
              \cup Unless("tls" \notin d.filled, TlsExtras))
    \cup {[d EXCEPT !.mechanism = m, !.typed = IF m = "none" THEN {} ELSE @]
            : m \in {"none", "token"}}
    \cup SwitchTls(d, TlsExtras)
    \cup (IF d.mechanism = "none" THEN {} ELSE Secrets(d, {"token"}) \cup ClearLink(d))

RedisForm(d) ==
  Typing(d, {"name", "endpoints", "several", "others"}
              \cup Unless(d.choice # "sentinel", {"masterName"})
              \cup Unless(d.choice = "cluster", {"db"})
              \cup Unless("tls" \notin d.filled, {"tlsSkipVerify"}))
    \cup {[d EXCEPT !.choice = c, !.filled = @ \ (Unless(c # "cluster", {"db"})
                                          \cup Unless(c = "sentinel", {"masterName"}))]
            : c \in {"standalone", "sentinel", "cluster"}}
    \cup Secrets(d, Login) \cup ClearLink(d) \cup SwitchTls(d, {"tlsSkipVerify"})

Encrypted(transport) == transport \in {"tls", "wss"}
WebSocket(transport) == transport \in {"ws", "wss"}

MqttForm(d) ==
  Typing(d, {"name", "endpoints", "others", "managementUrl"}
              \cup Unless(~WebSocket(d.choice), {"wsPath"})
              \cup Unless("v5" \notin d.filled, {"sessionExpiry"})
              \cup Unless(~Encrypted(d.choice), TlsExtras))
    \cup {[d EXCEPT !.filled = IF "v5" \in @ THEN @ \ {"v5", "sessionExpiry"} ELSE @ \cup {"v5"}]}
    \cup {[d EXCEPT !.choice = c, !.filled = @ \ Unless(Encrypted(c), TlsExtras)]
            : c \in {"tcp", "tls", "ws", "wss"}}
    \cup Mechanism(d, {"none", "plain"})
    \cup (IF d.mechanism = "none" THEN {} ELSE Secrets(d, Login) \cup ClearLink(d))
    \cup (IF "managementUrl" \in d.filled
          THEN Secrets(d, {"managementKey", "managementSecret"}) ELSE {})

NatsMechanisms == {"none", "plain", "token", "nkey", "creds", "mtls"}
\* The one credential, and the files, that belong to a mechanism.
NatsSecrets(m) == CASE m = "plain" -> Login [] m = "token" -> {"token"}
                    [] m = "nkey" -> {"nkeySeed"} [] OTHER -> {}
NatsFiles(m) == CASE m = "creds" -> {"credsFile"} [] m = "mtls" -> {"tlsCertFile", "tlsKeyFile"}
                  [] OTHER -> {}
NatsOwnSecrets == UNION {NatsSecrets(m) : m \in NatsMechanisms}
NatsOwnFiles == UNION {NatsFiles(m) : m \in NatsMechanisms}

NatsForm(d) ==
  Typing(d, {"name", "endpoints", "others"} \cup NatsFiles(d.mechanism)
              \cup Unless(d.mechanism # "mtls" /\ "tls" \notin d.filled, TlsExtras))
    \cup {[d EXCEPT !.mechanism = m,
                    !.typed = @ \ (NatsOwnSecrets \ NatsSecrets(m)),
                    !.filled = @ \ (NatsOwnFiles \ NatsFiles(m))] : m \in NatsMechanisms}
    \cup SwitchTls(d, TlsExtras)
    \cup Secrets(d, NatsSecrets(d.mechanism) \cup {"systemUser", "systemPassword"})
    \cup (IF d.mechanism \in {"plain", "token"} THEN ClearLink(d) ELSE {})

ActiveMQForm(d) ==
  Typing(d, {"name", "endpoints", "amqpUrl", "others"})
    \cup Mechanism(d, {"none", "plain"})
    \cup (IF d.mechanism = "plain" THEN Secrets(d, Login) \cup ClearLink(d) ELSE {})
    \cup (IF "amqpUrl" \in d.filled THEN Secrets(d, {"amqpUsername", "amqpPassword"}) ELSE {})

NsqForm(d) == Typing(d, {"name", "endpoints", "others"})

AwsKeys == {"accessKeyId", "secretAccessKey", "sessionToken"}
SqsForm(d) ==
  Typing(d, {"name", "region", "others"})
    \cup Secrets(d, AwsKeys) \cup ClearLink(d)

GooglePubSubForm(d) ==
  Typing(d, {"name", "projectId", "others"})
    \cup Secrets(d, {"credentialsJson"}) \cup ClearLink(d)

AzureServiceBusForm(d) ==
  Typing(d, {"name", "endpoints", "keyName", "others"})
    \cup Secrets(d, {"sharedAccessKey", "connectionString"}) \cup ClearLink(d)

KinesisForm(d) ==
  Typing(d, {"name", "region", "others"})
    \cup Secrets(d, AwsKeys) \cup ClearLink(d)

Messaging == {"messagingUsername", "messagingPassword"}
IbmMqForm(d) ==
  Typing(d, {"name", "endpoints", "others"})
    \cup Mechanism(d, {"none", "plain"}) \cup Secrets(d, Messaging)
    \cup (IF d.mechanism = "plain" THEN Secrets(d, Login) \cup ClearLink(d) ELSE {})

Rest == {"restUsername", "restPassword"}
SolaceForm(d) ==
  Typing(d, {"name", "endpoints", "others"})
    \cup Mechanism(d, {"none", "plain"}) \cup Secrets(d, Rest)
    \cup (IF d.mechanism = "plain" THEN Secrets(d, Login) \cup ClearLink(d) ELSE {})

Form(d) ==
  CASE d.protocol = "rabbitmq" -> RabbitMQForm(d)
    [] d.protocol = "kafka" -> KafkaForm(d)
    [] d.protocol = "pulsar" -> PulsarForm(d)
    [] d.protocol = "redis" -> RedisForm(d)
    [] d.protocol = "mqtt" -> MqttForm(d)
    [] d.protocol = "nats" -> NatsForm(d)
    [] d.protocol = "activemq" -> ActiveMQForm(d)
    [] d.protocol = "nsq" -> NsqForm(d)
    [] d.protocol = "sqs" -> SqsForm(d)
    [] d.protocol = "google-pubsub" -> GooglePubSubForm(d)
    [] d.protocol = "azure-servicebus" -> AzureServiceBusForm(d)
    [] d.protocol = "kinesis" -> KinesisForm(d)
    [] d.protocol = "ibmmq" -> IbmMqForm(d)
    [] d.protocol = "solace" -> SolaceForm(d)
    [] OTHER -> RocketMQForm(d)

(* ---- Submissions: what is handed to the service ---------------------- *)
Submit(d, mechanism, dropped, secrets, mode) ==
  [settings |-> [protocol |-> d.protocol, mechanism |-> mechanism, choice |-> d.choice,
                 filled |-> d.filled \ dropped],
   secrets |-> d.typed \cap secrets, mode |-> mode]

\* Two rules for a blank secret.  Several credentials: keep what is stored
\* under every blank key.  One credential: keep it until anything is typed.
PreserveBlank(d) == IF d.clear THEN "clear" ELSE IF keepStored(d) THEN "preserve" ELSE "replace"
ReplaceOnce(d, typed, keep) ==
  IF d.clear THEN "clear" ELSE IF typed # {} \/ ~keep THEN "replace" ELSE "preserve"
\* A family with no mechanism to choose authenticates when it has something to send.
Given(d, mechanism) == IF d.typed # {} \/ keepStored(d) THEN mechanism ELSE "none"

rocketMQSubmission(d) ==
  Submit(d, Given(d, "acl"), {}, {"accessKey", "secretKey"}, PreserveBlank(d))

\* Mutant: an anonymous Kafka connection leaves its stored credential alone.
kafkaSubmissionPreserving(d) ==
  Submit(d, d.mechanism, Unless("tls" \in d.filled, TlsExtras),
         Unless(d.mechanism = "none", Login), PreserveBlank(d))

kafkaSubmission(d) ==
  LET authenticating == d.mechanism # "none" IN
  Submit(d, d.mechanism, Unless("tls" \in d.filled, TlsExtras), Unless(~authenticating, Login),
         IF ~authenticating THEN "clear" ELSE ReplaceOnce(d, d.typed, keepStored(d)))

\* The virtual host is never stored blank, and RabbitMQ always authenticates.
rabbitMQSubmission(d) ==
  Submit([d EXCEPT !.filled = @ \cup {"vhost"}], "plain",
         Unless("tls" \in d.filled, {"tlsSkipVerify"}), Login,
         ReplaceOnce(d, d.typed, keepStored(d)))

pulsarSubmission(d) ==
  LET authenticating == d.mechanism # "none" IN
  Submit(d, d.mechanism, Unless("tls" \in d.filled, TlsExtras),
         Unless(~authenticating, {"token"}),
         IF ~authenticating THEN "clear" ELSE ReplaceOnce(d, d.typed, keepStored(d)))

redisSubmission(d) ==
  Submit(d, Given(d, "plain"),
         Unless(d.choice = "sentinel", {"masterName"}) \cup Unless(d.choice # "cluster", {"db"})
           \cup Unless("tls" \in d.filled, {"tlsSkipVerify"}),
         Login, ReplaceOnce(d, d.typed, keepStored(d)))

mqttSubmission(d) ==
  Submit(d, d.mechanism,
         Unless(WebSocket(d.choice), {"wsPath"}) \cup Unless(Encrypted(d.choice), TlsExtras)
           \cup Unless("v5" \in d.filled, {"sessionExpiry"}),
         Unless(d.mechanism = "none", Login)
           \cup Unless("managementUrl" \notin d.filled, {"managementKey", "managementSecret"}),
         PreserveBlank(d))

natsSubmission(d) ==
  Submit(d, d.mechanism,
         Unless("tls" \in d.filled \/ d.mechanism = "mtls", TlsExtras)
           \cup (NatsOwnFiles \ NatsFiles(d.mechanism)),
         NatsSecrets(d.mechanism) \cup {"systemUser", "systemPassword"}, PreserveBlank(d))

activeMQSubmission(d) ==
  Submit(d, d.mechanism, {},
         Unless(d.mechanism # "plain", Login)
           \cup Unless("amqpUrl" \notin d.filled, {"amqpUsername", "amqpPassword"}),
         PreserveBlank(d))

nsqSubmission(d) == Submit(d, "none", {}, {}, "replace")
sqsSubmission(d) == Submit(d, Given(d, "plain"), {}, AwsKeys, PreserveBlank(d))
googlePubSubSubmission(d) ==
  Submit(d, Given(d, "plain"), {}, {"credentialsJson"}, PreserveBlank(d))
azureServiceBusSubmission(d) ==
  Submit(d, Given(d, "plain"), {}, {"sharedAccessKey", "connectionString"}, PreserveBlank(d))
kinesisSubmission(d) == Submit(d, Given(d, "plain"), {}, AwsKeys, PreserveBlank(d))
ibmMqSubmission(d) ==
  Submit(d, d.mechanism, {}, Unless(d.mechanism # "plain", Login \cup Messaging),
         PreserveBlank(d))
solaceSubmission(d) ==
  Submit(d, d.mechanism, {}, Rest \cup Unless(d.mechanism # "plain", Login), PreserveBlank(d))

toSubmission(d) ==
  CASE d.protocol = "rabbitmq" -> rabbitMQSubmission(d)
    [] d.protocol = "kafka" -> kafkaSubmission(d)
    [] d.protocol = "pulsar" -> pulsarSubmission(d)
    [] d.protocol = "redis" -> redisSubmission(d)
    [] d.protocol = "mqtt" -> mqttSubmission(d)
    [] d.protocol = "nats" -> natsSubmission(d)
    [] d.protocol = "activemq" -> activeMQSubmission(d)
    [] d.protocol = "nsq" -> nsqSubmission(d)
    [] d.protocol = "sqs" -> sqsSubmission(d)
    [] d.protocol = "google-pubsub" -> googlePubSubSubmission(d)
    [] d.protocol = "azure-servicebus" -> azureServiceBusSubmission(d)
    [] d.protocol = "kinesis" -> kinesisSubmission(d)
    [] d.protocol = "ibmmq" -> ibmMqSubmission(d)
    [] d.protocol = "solace" -> solaceSubmission(d)
    [] OTHER -> rocketMQSubmission(d)

\* Mutant: a verdict outlives the clear control.
probeKeyOfSettings(d) ==
  LET s == toSubmission(d) IN [s EXCEPT !.settings.filled = @ \ {"name"}, !.mode = "-"]

\* What a verdict is about: everything but the labels.
probeKey(d) == LET s == toSubmission(d) IN [s EXCEPT !.settings.filled = @ \ {"name"}]

(* ---- Validation: a draft the Save and Test buttons accept ------------ *)
RabbitMQValid(d) == "endpoints" \in d.filled /\ (keepStored(d) \/ "username" \in d.typed)
KafkaValid(d) ==
  /\ "endpoints" \in d.filled
  /\ d.mechanism = "none" \/ keepStored(d) \/ "username" \in d.typed
PulsarValid(d) ==
  /\ {"endpoints", "admin", "tenant", "namespace"} \subseteq d.filled
  /\ d.mechanism = "none" \/ keepStored(d) \/ "token" \in d.typed
RedisValid(d) ==
  /\ "endpoints" \in d.filled
  /\ d.choice = "standalone" => "several" \notin d.filled
  /\ d.choice = "sentinel" => "masterName" \in d.filled
MqttValid(d) ==
  /\ "endpoints" \in d.filled
  /\ d.mechanism = "none" \/ keepStored(d) \/ "username" \in d.typed
  /\ "managementUrl" \in d.filled => keepStored(d) \/ "managementKey" \in d.typed
NatsValid(d) ==
  /\ "endpoints" \in d.filled
  /\ keepStored(d) \/ NatsSecrets(d.mechanism) \ {"password"} \subseteq d.typed
  /\ NatsFiles(d.mechanism) \subseteq d.filled
  /\ keepStored(d) \/ "systemUser" \notin d.typed \/ "systemPassword" \in d.typed
ActiveMQValid(d) == "endpoints" \in d.filled
NsqValid(d) == "endpoints" \in d.filled
\* Both halves of a pair, or neither, when nothing is stored.
Paired(d, a, b) == keepStored(d) \/ (a \in d.typed <=> b \in d.typed)
SqsValid(d) == "region" \in d.filled /\ Paired(d, "accessKeyId", "secretAccessKey")
GooglePubSubValid(d) == "projectId" \in d.filled
AzureServiceBusValid(d) == "endpoints" \in d.filled /\ (keepStored(d) \/ d.typed # {})
KinesisValid(d) == "region" \in d.filled /\ Paired(d, "accessKeyId", "secretAccessKey")
IbmMqValid(d) ==
  /\ "endpoints" \in d.filled
  /\ d.mechanism = "plain" => Paired(d, "messagingUsername", "messagingPassword")
SolaceValid(d) == "endpoints" \in d.filled /\ Paired(d, "restUsername", "restPassword")
RocketMQValid(d) == "endpoints" \in d.filled /\ ~({"v5", "proxy"} \subseteq d.filled)

Valid(d) ==
  /\ "name" \in d.filled
  /\ CASE d.protocol = "rabbitmq" -> RabbitMQValid(d)
       [] d.protocol = "kafka" -> KafkaValid(d)
       [] d.protocol = "pulsar" -> PulsarValid(d)
       [] d.protocol = "redis" -> RedisValid(d)
       [] d.protocol = "mqtt" -> MqttValid(d)
       [] d.protocol = "nats" -> NatsValid(d)
       [] d.protocol = "activemq" -> ActiveMQValid(d)
       [] d.protocol = "nsq" -> NsqValid(d)
       [] d.protocol = "sqs" -> SqsValid(d)
       [] d.protocol = "google-pubsub" -> GooglePubSubValid(d)
       [] d.protocol = "azure-servicebus" -> AzureServiceBusValid(d)
       [] d.protocol = "kinesis" -> KinesisValid(d)
       [] d.protocol = "ibmmq" -> IbmMqValid(d)
       [] d.protocol = "solace" -> SolaceValid(d)
       [] OTHER -> RocketMQValid(d)

(* ---- Reading a stored profile back into its form --------------------- *)
\* A profile is the settings of a submission and the secrets stored with it;
\* the view of it only says whether there are any.
Reopen(p, mechanism, dropped, stored) ==
  [protocol |-> p.settings.protocol, mechanism |-> mechanism, choice |-> p.settings.choice,
   filled |-> p.settings.filled \ dropped, typed |-> {}, stored |-> stored, clear |-> FALSE]
HasSecrets(p) == p.secrets # {}
\* Of a mechanism a form cannot show, the form shows "none".
Known(m, mechanisms) == IF m \in mechanisms THEN m ELSE "none"

toRocketMQDraft(p) == Reopen(p, "none", {}, HasSecrets(p))
toKafkaDraft(p) ==
  LET m == Known(p.settings.mechanism, {"sasl-plain", "sasl-scram"})
  IN Reopen(p, m, Unless("tls" \in p.settings.filled, TlsExtras), m # "none" /\ HasSecrets(p))
toRabbitMQDraft(p) ==
  Reopen(p, "plain", Unless("tls" \in p.settings.filled, {"tlsSkipVerify"}), HasSecrets(p))
toPulsarDraft(p) ==
  LET m == Known(p.settings.mechanism, {"token"})
  IN Reopen(p, m, Unless("tls" \in p.settings.filled, TlsExtras), m # "none" /\ HasSecrets(p))
toRedisDraft(p) ==
  Reopen(p, "none", Unless(p.settings.choice = "sentinel", {"masterName"})
                      \cup Unless(p.settings.choice # "cluster", {"db"})
                      \cup Unless("tls" \in p.settings.filled, {"tlsSkipVerify"}), HasSecrets(p))

\* A blank WebSocket path is read back as the default one.
toMqttDraft(p) ==
  [Reopen(p, Known(p.settings.mechanism, {"plain"}),
          Unless(Encrypted(p.settings.choice), TlsExtras)
            \cup Unless("v5" \in p.settings.filled, {"sessionExpiry"}), HasSecrets(p))
     EXCEPT !.filled = @ \cup {"wsPath"}]

toNatsDraft(p) ==
  LET m == Known(p.settings.mechanism, NatsMechanisms)
  IN Reopen(p, m, Unless("tls" \in p.settings.filled \/ m = "mtls", TlsExtras)
                    \cup (NatsOwnFiles \ NatsFiles(m)), HasSecrets(p))
NoneOrPlain(m) == IF m = "none" THEN "none" ELSE "plain"
toActiveMQDraft(p) == Reopen(p, NoneOrPlain(p.settings.mechanism), {}, HasSecrets(p))
toNsqDraft(p) == Reopen(p, "none", {}, FALSE)
PlainAndStored(p) == p.settings.mechanism = "plain" /\ HasSecrets(p)
toSqsDraft(p) == Reopen(p, "none", {}, PlainAndStored(p))
toGooglePubSubDraft(p) == Reopen(p, "none", {}, PlainAndStored(p))
\* A blank key name is read back as the policy every namespace is created with.
toAzureServiceBusDraft(p) ==
  [Reopen(p, "none", {}, PlainAndStored(p)) EXCEPT !.filled = @ \cup {"keyName"}]
toKinesisDraft(p) == Reopen(p, "none", {}, PlainAndStored(p))
toIbmMqDraft(p) == Reopen(p, NoneOrPlain(p.settings.mechanism), {}, HasSecrets(p))
toSolaceDraft(p) == Reopen(p, NoneOrPlain(p.settings.mechanism), {}, HasSecrets(p))

toDraft(p) ==
  CASE p.settings.protocol = "rabbitmq" -> toRabbitMQDraft(p)
    [] p.settings.protocol = "kafka" -> toKafkaDraft(p)
    [] p.settings.protocol = "pulsar" -> toPulsarDraft(p)
    [] p.settings.protocol = "redis" -> toRedisDraft(p)
    [] p.settings.protocol = "mqtt" -> toMqttDraft(p)
    [] p.settings.protocol = "nats" -> toNatsDraft(p)
    [] p.settings.protocol = "activemq" -> toActiveMQDraft(p)
    [] p.settings.protocol = "nsq" -> toNsqDraft(p)
    [] p.settings.protocol = "sqs" -> toSqsDraft(p)
    [] p.settings.protocol = "google-pubsub" -> toGooglePubSubDraft(p)
    [] p.settings.protocol = "azure-servicebus" -> toAzureServiceBusDraft(p)
    [] p.settings.protocol = "kinesis" -> toKinesisDraft(p)
    [] p.settings.protocol = "ibmmq" -> toIbmMqDraft(p)
    [] p.settings.protocol = "solace" -> toSolaceDraft(p)
    [] OTHER -> toRocketMQDraft(p)

(* ---- What the service makes of a submission -------------------------- *)
\* current holds the profile under the id, or nothing for a new connection, to
\* which the credentials mode does not apply.
applyCredentialsMode(current, s) ==
  LET clearing == current # {} /\ s.mode = "clear"
      kept == IF s.mode = "preserve" THEN UNION {p.secrets : p \in current} ELSE {}
  IN [settings |-> [s.settings EXCEPT !.mechanism = IF clearing THEN "none" ELSE @],
      secrets |-> IF clearing THEN {} ELSE s.secrets \cup kept]
\* ACL needs both halves of the key pair.
normalizeACLConfig(profile) ==
  profile.settings.mechanism = "acl" => {"accessKey", "secretKey"} \subseteq profile.secrets

=============================================================================
