------------------------------- MODULE BoardTable -------------------------------
(* The pages of the boards (frontend/src/design/boards), each reduced to what it reads
   and what its buttons and dialogs do.

   A page is what it reads again every thirty seconds, what it reads once, and its
   acts.  An act is a button or a submitted dialog:
     asks     a question is answered first (components/confirm.tsx)
     form     it is submitted from a dialog, described under dialog
     guarded  its button is off while a request of it is under way
     closes   the page closes the panel or the dialog as soon as the change is made
     alters   the reads that show what it changes
     rereads  what the handler reads again after the change
     later    what it reads after that
   "list" is the page's own list, "panel" a row's own read, "second" another list of
   the page.  On a page that changes something, a read no change alters is left out;
   search and filters are left out everywhere. *)

None == {}
List == {"list"}
Panel == {"panel"}
Second == {"second"}
Third == {"third"}

Page(polled, once, acts) == [polled |-> polled, once |-> once, acts |-> acts]
(* The panel of a row: what it reads when it opens and what its buttons do. *)
Sheet(once, acts) == Page({}, once, acts)
With(page, sheet) ==
    Page(page.polled \cup sheet.polled, page.once \cup sheet.once, page.acts \cup sheet.acts)

(* A dialog: whether opening it forgets a request under way; whether it waits for
   the page to have read again; the reads whose arrival fills it anew; whether it
   lives in the row's panel; and whether it stays to show what came of it. *)
Dialog(forgets, awaits, follows) ==
    [forgets |-> forgets, awaits |-> awaits, follows |-> follows, inPanel |-> FALSE,
     stays |-> FALSE]
(* A button's handler waits as well. *)
NoDialog == Dialog(FALSE, TRUE, None)

(* save: saving is cleared by every opening. *)
Save == Dialog(TRUE, TRUE, None)
SaveOver(follows) == Dialog(TRUE, TRUE, follows)
(* submit: refused while busy, which only the answer clears. *)
Submit == Dialog(FALSE, TRUE, None)
SubmitOver(follows) == Dialog(FALSE, TRUE, follows)
(* The dialog calls the broker itself and tells the page afterwards. *)
Call == Dialog(FALSE, FALSE, None)
CallOver(follows) == Dialog(FALSE, FALSE, follows)
InPanel(dialog) == [dialog EXCEPT !.inPanel = TRUE]
Staying(dialog) == [dialog EXCEPT !.stays = TRUE]

Plain(alters, rereads) ==
    [asks |-> FALSE, form |-> FALSE, dialog |-> NoDialog, guarded |-> FALSE, closes |-> FALSE,
     alters |-> alters, rereads |-> rereads, later |-> None]

(* A button; one that is off while it works; one that asks; one that asks and is off;
   one that asks and closes the panel of what it removed; and a dialog's submission. *)
Button(alters, rereads) == Plain(alters, rereads)
Send(alters, rereads) == [Plain(alters, rereads) EXCEPT !.guarded = TRUE]
Asked(alters, rereads) == [Plain(alters, rereads) EXCEPT !.asks = TRUE]
AskedSend(alters, rereads) == [Asked(alters, rereads) EXCEPT !.guarded = TRUE]
Removed(alters, rereads) == [Asked(alters, rereads) EXCEPT !.closes = TRUE]
Form(dialog, alters, rereads) ==
    [Plain(alters, rereads) EXCEPT !.form = TRUE, !.dialog = dialog, !.guarded = TRUE]
(* The page shuts the dialog before it reads again. *)
Shut(act) == [act EXCEPT !.closes = TRUE]
Then(act, later) == [act EXCEPT !.later = later]

--------------------------------------------------------------------------------
(* Access: acl/. *)

PrincipalDialog == Save
RuleDialog == Save
(* The older broker's tab shows nothing of what it writes, and keeps its own state. *)
PlainAccess == Page(None, None, {Send(None, None), AskedSend(None, None)})
PrincipalTable == Sheet(List, {Form(PrincipalDialog, List, List), Asked(List, List)})
RuleList == Sheet(Second, {Form(RuleDialog, Second, Second), Asked(Second, Second)})
Acl == With(PrincipalTable, RuleList)

AclRuleDialogKafka == Call
ScramUserDialogKafka == Call
AclKafka ==
    Page(List, None,
         {Form(AclRuleDialogKafka, List, List), Form(ScramUserDialogKafka, List, List),
          Removed(List, List), Asked(List, List)})

AclUserDialog == Submit
AclRedis == Page(List, None, {Shut(Form(AclUserDialog, List, List)), Asked(List, List)})

GrantDialog == Save
TokensPulsar ==
    Page(List \cup Second, None,
         {Then(Form(GrantDialog, List, List), Second),
          Then(Asked(List, List), Second), Then(Asked(Second, List), Second)})

IdentityDialog == Save
PermissionDialog == Save
PermissionRow == {Form(PermissionDialog, List, List), Asked(List, List)}
IdentityDetail == Sheet(None, PermissionRow)
UsersRabbitMQ ==
    With(Page(List, None, {Form(IdentityDialog, List, List), Removed(List, List)}),
         IdentityDetail)

--------------------------------------------------------------------------------
(* Clusters: cluster/. *)

(* A broker's replicas and its settings are read when their dialog opens. *)
MaintenanceDialog == AskedSend(None, None)
ReplicaDialog == Panel
ConfigDialog == Panel
ClusterRocketMQ ==
    Page(List, ReplicaDialog \cup ConfigDialog, {Asked(List, List), MaintenanceDialog})
NodeRedis == Page(List, None, {Asked(List, List)})

--------------------------------------------------------------------------------
(* Consumers and clients: consumers/. *)

ChannelDialogNsq == Submit
ChannelSheetNsq ==
    Sheet(None, {Button(List, List), Asked(List, List), Removed(List, List)})
ChannelsNsq == With(Page(List, None, {Form(ChannelDialogNsq, List, List)}), ChannelSheetNsq)

ChannelsRabbitMQ == Page(List, None, {Removed(List, List)})
ConnectionSheetActiveMQ == Sheet(None, {Removed(List, List)})
ClientsActiveMQ == With(Page(List, None, None), ConnectionSheetActiveMQ)
ClientsMqtt == Page(List, None, {Asked(List, List)})
ClientsNats == Page(List, None, {Removed(List, List)})
ClientsRedis == Page(List, None, {Asked(List, List)})

ResetOffsetDialogKafka == InPanel(CallOver(List \cup Panel))
ConsumersKafka ==
    Page(List \cup Panel, None,
         {Form(ResetOffsetDialogKafka, List \cup Panel, List \cup Panel),
          Removed(List \cup Panel, List)})

ConsumerDialogKinesis == Submit
ConsumerSheetKinesis == Sheet(None, {Removed(List, List)})
ConsumersKinesis ==
    With(Page(List, None, {Form(ConsumerDialogKinesis, List, List)}), ConsumerSheetKinesis)

ConsumerDialogNats == Submit
ConsumersNats ==
    Page(List, None, {Form(ConsumerDialogNats, List, List), Removed(List, List)})

GroupDialog == SubmitOver(Second)
PositionDialog == Submit
ConsumersRedis ==
    Page(List \cup Second, None,
         {Form(GroupDialog, List, List), Shut(Form(PositionDialog, List, List)),
          Asked(List, List)})

(* A group's queues and clients are read when its panel opens. *)
ResetOffsetDialog == SaveOver(List)
QueueOffsetDialog == Save
CloneOffsetDialog == SaveOver(List)
ConsumerGroupDialog == SaveOver(List)
GroupSheet ==
    Sheet(Panel,
          {Form(ResetOffsetDialog, List \cup Panel, List),
           Form(QueueOffsetDialog, List \cup Panel, List),
           Form(CloneOffsetDialog, List, List),
           Form(ConsumerGroupDialog, List, List),
           Removed(List \cup Panel, List)})
ConsumersRocketMQ ==
    With(Page(List, None, {Form(ConsumerGroupDialog, List, List)}), GroupSheet)

SubscriptionDialogActiveMQ == SubmitOver(Second)
SubscriptionSheetActiveMQ == Sheet(None, {Removed(List, List)})
SubscriptionsActiveMQ ==
    With(Page(List \cup Second, None, {Form(SubscriptionDialogActiveMQ, List, List)}),
         SubscriptionSheetActiveMQ)

SubscriptionDialogAzureServiceBus == Submit
SubscriptionSheetAzureServiceBus ==
    Sheet(None, {Form(SubscriptionDialogAzureServiceBus, List, List), Removed(List, List)})
SubscriptionsAzureServiceBus ==
    With(Page(List, None, {Form(SubscriptionDialogAzureServiceBus, List, List)}),
         SubscriptionSheetAzureServiceBus)

(* Snapshots are the second list.  Seeking to one alters nothing the page shows. *)
SubscriptionDialogGooglePubSub == Submit
SubscriptionSheetGooglePubSub ==
    Sheet(None,
          {Form(SubscriptionDialogGooglePubSub, List, List), Removed(List, List),
           Asked(Second, Second), Asked(None, None), Button(Second, Second)})
SubscriptionsGooglePubSub ==
    With(Page(List \cup Second, None, {Form(SubscriptionDialogGooglePubSub, List, List)}),
         SubscriptionSheetGooglePubSub)

SubscriptionDialogPulsar == SaveOver(List \cup Second)
ResetCursorDialogPulsar == InPanel(Save)
SubscriptionsPulsar ==
    Page(List \cup Second, Panel,
         {Form(SubscriptionDialogPulsar, List, List), Removed(List \cup Panel, List),
          Then(Form(ResetCursorDialogPulsar, List \cup Panel, List), Panel)})

--------------------------------------------------------------------------------
(* Dead letters: dlq/.  The second list is what the page browsed. *)

DeadLetterSheetActiveMQ == Sheet(None, {Asked(List, List)})
DlqActiveMQ == With(Page(List, None, None), DeadLetterSheetActiveMQ)

DeadLetterSheetAzureServiceBus ==
    Sheet(None, {Then(AskedSend(List \cup Second, Second), List)})
DlqAzureServiceBus == With(Page(List, Second, None), DeadLetterSheetAzureServiceBus)

MoveDialog == SaveOver(Second)
DlqRabbitMQ ==
    Page(List, Second,
         {Then(Form(MoveDialog, List \cup Second, List), Second),
          Then(Asked(List \cup Second, List), Second)})

DlqRocketMQ == Page(None, Second, {AskedSend(Second, Second)})

(* The pending entries and the groups that owe them. *)
ClaimDialog == Submit
PelRedis ==
    Page(List \cup Second, None,
         {Shut(Form(ClaimDialog, List \cup Second, List \cup Second)),
          Asked(List \cup Second, List \cup Second)})

MessagesRedis == Page(None, Second, {Asked(Second, Second)})

(* A message's trace is read when its panel opens. *)
ReplayDialog == InPanel(Staying(Dialog(TRUE, FALSE, None)))
ResendDialog == InPanel(Call)
MessageSheetRocketMQ ==
    Sheet(Panel, {Form(ReplayDialog, None, None), Form(ResendDialog, None, None)})
MessagesRocketMQ == With(Page(None, None, None), MessageSheetRocketMQ)

--------------------------------------------------------------------------------
(* Definitions, moved through a file: definitions/. *)
DefinitionsRabbitMQ == Page(List, None, {Send(None, None), AskedSend(None, None)})

--------------------------------------------------------------------------------
(* Policies, quotas and replication: policies/, quotas/, replication/. *)

PolicyDialog == Save
ParameterList == Sheet(None, {Asked(List, List)})
PoliciesRabbitMQ ==
    With(Page(List, None, {Form(PolicyDialog, List, List), Removed(List, List)}), ParameterList)

QuotaDialogKafka == CallOver(List)
QuotasKafka == Page(List, None, {Form(QuotaDialogKafka, List, List), Asked(List, List)})

ShovelCard == Asked(List, List)
UpstreamCard == Asked(List, List)
ReplicationRabbitMQ == Page(List, None, {ShovelCard, UpstreamCard})

--------------------------------------------------------------------------------
(* Publishers: producer/.  What was published changes the depth of the list the
   destination is picked from. *)

ProducerAzureServiceBus == Page(List, None, {Send(List, List)})
ProducerGooglePubSub == Page(List, None, {Send(List, List)})
ProducerIbmMq == Page(List, None, {Send(List, List)})
ProducerKinesis == Page(List, None, {Send(List, List)})
ProducerNsq == Page(List, None, {Send(List, List)})
ProducerPulsar == Page(List, None, {Send(List, List)})
ProducerRedis == Page(List, None, {Send(List, List)})
ProducerSolace == Page(List, None, {Send(List, List)})
ProducerSqs == Page(List, None, {Send(List, List)})

(* These offer names only. *)
Producer == Page(List, None, {Send(None, None)})
ProducerActiveMQ == Page(List, None, {Send(None, None)})
ProducerKafka == Page(List, None, {Send(None, None)})
ProducerMqtt == Page(None, None, {Send(None, None)})
ProducerNats == Page(None, None, {Send(None, None)})
ProducerRabbitMQ == Page(List \cup Second, None, {Send(None, None)})

--------------------------------------------------------------------------------
(* Queues, topics and streams: topics/. *)

DestinationDialogActiveMQ == Submit
MoveDialogActiveMQ == Submit
DestinationSheetActiveMQ ==
    Sheet(None, {Form(MoveDialogActiveMQ, List, List), Asked(List, List), Removed(List, List)})
DestinationsActiveMQ ==
    With(Page(List, None, {Form(DestinationDialogActiveMQ, List, List)}),
         DestinationSheetActiveMQ)

EntityDialogAzureServiceBus == Submit
EntitySheetAzureServiceBus ==
    Sheet(None, {Form(EntityDialogAzureServiceBus, List, List), Removed(List, List)})
EntitiesAzureServiceBus ==
    With(Page(List, None, {Form(EntityDialogAzureServiceBus, List, List)}),
         EntitySheetAzureServiceBus)

RuleDialogAzureServiceBus == Submit
RuleSheetAzureServiceBus == Sheet(None, {Removed(List, List)})
RulesAzureServiceBus ==
    With(Page(List, None, {Form(RuleDialogAzureServiceBus, List, List)}),
         RuleSheetAzureServiceBus)

ExchangeDialog == Save
BindingDialog == Save
BindingRow == Asked(List, List)
ExchangeDetail == Sheet(None, {BindingRow})
ExchangesRabbitMQ ==
    With(Page(List, None,
              {Form(ExchangeDialog, List, List), Form(BindingDialog, List, List),
               Removed(List, List)}),
         ExchangeDetail)

QueueDialogIbmMq == Submit
QueueSheetIbmMq == Sheet(None, {Removed(List, List)})
QueuesIbmMq == With(Page(List, None, {Form(QueueDialogIbmMq, List, List)}), QueueSheetIbmMq)

QueueDialog == Save
QueuesRabbitMQ ==
    Page(List, None,
         {Form(QueueDialog, List, List), Form(MoveDialog, List, List),
          Asked(List, List), Removed(List, List)})

QueueDialogSolace == Submit
QueueSheetSolace == Sheet(None, {Removed(List, List)})
QueuesSolace == With(Page(List, None, {Form(QueueDialogSolace, List, List)}), QueueSheetSolace)

SubscriptionDialogSolace == Submit
RoutingSolace ==
    Page(List, None, {Form(SubscriptionDialogSolace, List, List), Removed(List, List)})

QueueDialogSqs == Submit
QueueSheetSqs ==
    Sheet(None, {Form(QueueDialogSqs, List, List), Asked(List, List), Removed(List, List)})
QueuesSqs == With(Page(List, None, {Form(QueueDialogSqs, List, List)}), QueueSheetSqs)

StreamDialogKinesis == Submit
StreamSheetKinesis ==
    Sheet(None, {Form(StreamDialogKinesis, List, List), Removed(List, List)})
StreamsKinesis ==
    With(Page(List, None, {Form(StreamDialogKinesis, List, List)}), StreamSheetKinesis)

(* What a stream or a topic holds is read when its panel opens. *)
StreamDialogNats == Submit
PurgeDialogNats == Submit
StreamsNats ==
    Page(List, Panel,
         {Form(StreamDialogNats, List \cup Panel, List),
          Form(PurgeDialogNats, List \cup Panel, List), Removed(List \cup Panel, List)})

StreamDialog == Submit
TrimDialog == Submit
StreamsRedis ==
    Page(List, Panel,
         {Form(StreamDialog, List, List), Form(TrimDialog, List \cup Panel, List),
          Removed(List \cup Panel, List)})

TopicDialogGooglePubSub == Submit
TopicSheetGooglePubSub ==
    Sheet(None, {Form(TopicDialogGooglePubSub, List, List), Removed(List, List)})
TopicsGooglePubSub ==
    With(Page(List, None, {Form(TopicDialogGooglePubSub, List, List)}), TopicSheetGooglePubSub)

TopicDialogNsq == Submit
TopicSheetNsq == Sheet(None, {Button(List, List), Asked(List, List), Removed(List, List)})
TopicsNsq == With(Page(List, None, {Form(TopicDialogNsq, List, List)}), TopicSheetNsq)

TopicDialogKafka == Call
ReassignDialogKafka == InPanel(CallOver(Panel))
TopicsKafka ==
    Page(List \cup Panel, None,
         {Form(TopicDialogKafka, List, List), Form(ReassignDialogKafka, Panel, Panel),
          Asked(List \cup Panel, List \cup Panel), Removed(List \cup Panel, List)})

TopicDialogPulsar == Save
TopicsPulsar ==
    Page(List, Panel, {Form(TopicDialogPulsar, List, List), Removed(List \cup Panel, List)})

TopicDialog == SaveOver(List)
TopicSheetRocketMQ ==
    Sheet(Panel, {Form(TopicDialog, List \cup Panel, List), Removed(List \cup Panel, List)})
TopicsRocketMQ ==
    With(Page(List, None, {Form(TopicDialog, List \cup Panel, List)}), TopicSheetRocketMQ)

--------------------------------------------------------------------------------
(* Namespaces and virtual hosts: vhosts/. *)

NamespaceDialogPulsar == Save
NamespaceLimitsPulsar == Send(List, List)
NamespacesPulsar ==
    Page(List, None,
         {Form(NamespaceDialogPulsar, List, List), Removed(List, List), NamespaceLimitsPulsar})

VhostDialog == Save
(* A limit is applied from its row of the panel. *)
LimitRow == Button(List, List)
VhostDetail == Sheet(None, {LimitRow})
VhostsRabbitMQ ==
    With(Page(List, None, {Form(VhostDialog, List, List), Removed(List, List)}), VhostDetail)

--------------------------------------------------------------------------------
(* The pages that change nothing.  A node's configuration is its panel's read. *)

Read1 == Page(List, None, None)
Read2 == Page(List \cup Second, None, None)
Read3 == Page(List \cup Second \cup Third, None, None)
ReadRow == Page(List, Panel, None)

OverviewActiveMQ == Read3
OverviewAzureServiceBus == Read2
OverviewGooglePubSub == Read2
OverviewIbmMq == Read2
OverviewKafka == Read1
OverviewKinesis == Read2
OverviewMqtt == Read1
OverviewNats == Read3
OverviewNsq == Read3
OverviewPulsar == Read1
OverviewRabbitMQ == Read1
OverviewRedis == Read3
OverviewRocketMQ == Read1
OverviewSolace == Read2
OverviewSqs == Read1

BrokerSheetActiveMQ == Sheet(Panel, None)
NodeSheetNsq == Sheet(Panel, None)
KafkaTransactionsPanel == Page(Third, None, None)

BrokerActiveMQ == With(Read1, BrokerSheetActiveMQ)
BrokerSolace == Read1
BrokersKafka == With(Page(List \cup Second \cup Panel, None, None), KafkaTransactionsPanel)
BrokersPulsar == Page(List, Panel \cup Second, None)
ClusterNsq == With(Read1, NodeSheetNsq)
NodesMqtt == Read1
NodesRabbitMQ == Read1
ServersNats == ReadRow

ChannelsIbmMq == Read1
ClientsNsq == Read1
ClientsSolace == Read1
SubscriptionsIbmMq == Read1
TopicsMqtt == Read1
AccountsNats == Read1

DlqGooglePubSub == Read1
DlqIbmMq == Read1
DlqPulsar == Read2
DlqSolace == Read1
DlqSqs == Read1

--------------------------------------------------------------------------------
Pages ==
    {PlainAccess, Acl, AclKafka, AclRedis, TokensPulsar, UsersRabbitMQ, ClusterRocketMQ, NodeRedis,
     ChannelsNsq, ChannelsRabbitMQ, ClientsActiveMQ, ClientsMqtt, ClientsNats,
     ClientsRedis, ConsumersKafka, ConsumersKinesis, ConsumersNats, ConsumersRedis,
     ConsumersRocketMQ, SubscriptionsActiveMQ, SubscriptionsAzureServiceBus,
     SubscriptionsGooglePubSub, SubscriptionsPulsar, DlqActiveMQ, DlqAzureServiceBus,
     DlqRabbitMQ, DlqRocketMQ, PelRedis, MessagesRedis, MessagesRocketMQ,
     PoliciesRabbitMQ, QuotasKafka,
     ReplicationRabbitMQ, ProducerAzureServiceBus, ProducerGooglePubSub, ProducerIbmMq,
     ProducerKinesis, ProducerNsq, ProducerPulsar, ProducerRedis, ProducerSolace,
     ProducerSqs, DestinationsActiveMQ, EntitiesAzureServiceBus, RulesAzureServiceBus,
     ExchangesRabbitMQ, QueuesIbmMq, QueuesRabbitMQ, QueuesSolace, RoutingSolace,
     QueuesSqs, StreamsKinesis, StreamsNats, StreamsRedis, TopicsGooglePubSub, TopicsNsq,
     TopicsKafka, TopicsPulsar, TopicsRocketMQ, NamespacesPulsar, VhostsRabbitMQ,
     DefinitionsRabbitMQ, Producer, ProducerActiveMQ, ProducerKafka, ProducerMqtt,
     ProducerNats, ProducerRabbitMQ, OverviewActiveMQ, OverviewAzureServiceBus,
     OverviewGooglePubSub, OverviewIbmMq, OverviewKafka, OverviewKinesis, OverviewMqtt,
     OverviewNats, OverviewNsq, OverviewPulsar, OverviewRabbitMQ, OverviewRedis,
     OverviewRocketMQ, OverviewSolace, OverviewSqs, BrokerActiveMQ, BrokerSolace,
     BrokersKafka, BrokersPulsar, ClusterNsq, NodesMqtt, NodesRabbitMQ, ServersNats,
     ChannelsIbmMq, ClientsNsq, ClientsSolace, SubscriptionsIbmMq, TopicsMqtt,
     AccountsNats, DlqGooglePubSub, DlqIbmMq, DlqPulsar, DlqSolace, DlqSqs}

(* The pages whose panel is read when it opens and not again after a change that
   alters it: what they show of the row is from before until it is reopened. *)
LeaveBehind ==
    {ConsumersRocketMQ, StreamsNats, StreamsRedis, TopicsRocketMQ}
================================================================================
