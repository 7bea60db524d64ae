------------------------------ MODULE BoardsProofs ------------------------------
(* What the pages of a connection promise (MCBoards), proved for any number of requests
   under way, of sources, messages, reads and polls.

   The pages themselves are a table of constants; EveryPage goes through it, page by
   page, for the one fact the proofs use of it. *)
EXTENDS MCBoards, FiniteSetTheorems, FunctionTheorems, SequenceTheorems, TLAPS

--------------------------------------------------------------------------------
(* The table. *)

(* A handler reads again what its act alters: at once, after that if it waits, or by
   closing the panel that shows it. *)
ReadsAgain(a) ==
    a.alters \subseteq a.rereads \cup (IF a.dialog.awaits THEN a.later ELSE {})
                               \cup (IF a.closes /\ ~a.form THEN Board!Panel ELSE {})

(* The acts of a page, and of one with a sheet. *)
LEMMA Acts ==
    /\ \A polled, once, acts : /\ Board!Page(polled, once, acts).acts = acts
                              /\ Board!Sheet(once, acts).acts = acts
    /\ \A p, s : Board!With(p, s).acts = p.acts \cup s.acts
BY DEF Board!Page, Board!Sheet, Board!With

(* The constructors of acts keep that. *)
LEMMA Constructors ==
    ASSUME NEW al, NEW re
    PROVE  /\ al \subseteq re =>
                 /\ ReadsAgain(Board!Button(al, re)) /\ ReadsAgain(Board!Send(al, re))
                 /\ ReadsAgain(Board!Asked(al, re)) /\ ReadsAgain(Board!AskedSend(al, re))
                 /\ \A d : /\ ReadsAgain(Board!Form(d, al, re))
                               /\ ReadsAgain(Board!Shut(Board!Form(d, al, re)))
           /\ al \subseteq re \cup Board!Panel => ReadsAgain(Board!Removed(al, re))
           /\ \A later : al \subseteq re \cup later =>
                 /\ ReadsAgain(Board!Then(Board!Asked(al, re), later))
                 /\ ReadsAgain(Board!Then(Board!AskedSend(al, re), later))
                 /\ \A d : d.awaits => ReadsAgain(Board!Then(Board!Form(d, al, re), later))
<1> USE DEF ReadsAgain, Board!Plain
<1>1. al \subseteq re => ReadsAgain(Board!Button(al, re)) /\ ReadsAgain(Board!Send(al, re))
  BY DEF Board!Button, Board!Send
<1>2. al \subseteq re => ReadsAgain(Board!Asked(al, re)) /\ ReadsAgain(Board!AskedSend(al, re))
  BY DEF Board!Asked, Board!AskedSend
<1>3. al \subseteq re => \A d : ReadsAgain(Board!Form(d, al, re))
  BY DEF Board!Form
<1>4. al \subseteq re => \A d : ReadsAgain(Board!Shut(Board!Form(d, al, re)))
  BY DEF Board!Form, Board!Shut
<1>5. al \subseteq re \cup Board!Panel => ReadsAgain(Board!Removed(al, re))
  BY DEF Board!Removed, Board!Asked
<1>6. ASSUME NEW later, al \subseteq re \cup later
      PROVE  /\ ReadsAgain(Board!Then(Board!Asked(al, re), later))
             /\ ReadsAgain(Board!Then(Board!AskedSend(al, re), later))
  <2>1. Board!NoDialog.awaits
    BY DEF Board!NoDialog, Board!Dialog
  <2> QED BY <1>6, <2>1 DEF Board!Then, Board!Asked, Board!AskedSend
<1>7. ASSUME NEW later, al \subseteq re \cup later, NEW d, d.awaits
      PROVE  ReadsAgain(Board!Then(Board!Form(d, al, re), later))
  BY <1>7 DEF Board!Then, Board!Form
<1> HIDE DEF ReadsAgain, Board!Plain
<1> QED BY <1>1, <1>2, <1>3, <1>4, <1>5, <1>6, <1>7

LEMMA RowRemoved == ReadsAgain(Board!Removed(Board!List \cup Board!Panel, Board!List))
BY DEF ReadsAgain, Board!Removed, Board!Asked, Board!Plain

LEMMA Nothing == \A x : x \notin Board!None
BY DEF Board!None

LEMMA Waiting == /\ Board!Save.awaits /\ \A f : Board!SaveOver(f).awaits
                 /\ Board!InPanel(Board!Save).awaits
BY DEF Board!Save, Board!SaveOver, Board!Dialog, Board!InPanel
ReadsAll(p) == \A a \in p.acts : ReadsAgain(a)

(* Every page but those left out reads again what its acts alter. *)
LEMMA EveryPage == \A p \in Board!Pages \ Board!LeaveBehind : ReadsAll(p)
<1> DEFINE row == Board!List \cup Board!Panel
<1> USE DEF ReadsAll
<1>1. ReadsAll(Board!PlainAccess)
  BY Acts, Constructors, Waiting, Nothing
     DEF Board!PlainAccess
<1>2. ReadsAll(Board!Acl)
  BY Acts, Constructors, Waiting
     DEF Board!Acl, Board!PrincipalTable, Board!PrincipalDialog, Board!RuleList,
         Board!RuleDialog
<1>3. ReadsAll(Board!AclKafka)
  BY Acts, Constructors, Waiting, Nothing
     DEF Board!AclKafka, Board!AclRuleDialogKafka, Board!ScramUserDialogKafka
<1>4. ReadsAll(Board!AclRedis)
  BY Acts, Constructors, Waiting, Nothing
     DEF Board!AclRedis, Board!AclUserDialog
<1>5. ReadsAll(Board!TokensPulsar)
  BY Acts, Constructors, Waiting, Nothing
     DEF Board!TokensPulsar, Board!GrantDialog
<1>6. ReadsAll(Board!UsersRabbitMQ)
  BY Acts, Constructors, Waiting, Nothing
     DEF Board!UsersRabbitMQ, Board!IdentityDialog, Board!IdentityDetail, Board!PermissionRow,
         Board!PermissionDialog
<1>7. ReadsAll(Board!ClusterRocketMQ)
  BY Acts, Constructors, Waiting, Nothing
     DEF Board!ClusterRocketMQ, Board!ReplicaDialog, Board!ConfigDialog,
         Board!MaintenanceDialog
<1>8. ReadsAll(Board!NodeRedis)
  BY Acts, Constructors, Waiting, Nothing
     DEF Board!NodeRedis
<1>9. ReadsAll(Board!ChannelsNsq)
  BY Acts, Constructors, Waiting, Nothing
     DEF Board!ChannelsNsq, Board!ChannelDialogNsq, Board!ChannelSheetNsq
<1>10. ReadsAll(Board!ChannelsRabbitMQ)
  BY Acts, Constructors, Waiting, Nothing
     DEF Board!ChannelsRabbitMQ
<1>11. ReadsAll(Board!ClientsActiveMQ)
  BY Acts, Constructors, Waiting, Nothing
     DEF Board!ClientsActiveMQ, Board!ConnectionSheetActiveMQ
<1>12. ReadsAll(Board!ClientsMqtt)
  BY Acts, Constructors, Waiting, Nothing
     DEF Board!ClientsMqtt
<1>13. ReadsAll(Board!ClientsNats)
  BY Acts, Constructors, Waiting, Nothing
     DEF Board!ClientsNats
<1>14. ReadsAll(Board!ClientsRedis)
  BY Acts, Constructors, Waiting, Nothing
     DEF Board!ClientsRedis
<1>15. ReadsAll(Board!ConsumersKafka)
  <2>1. ReadsAgain(Board!Form(Board!ResetOffsetDialogKafka, row, row))
    BY Constructors
  <2>2. Board!ConsumersKafka.acts =
          {Board!Form(Board!ResetOffsetDialogKafka, row, row), Board!Removed(row, Board!List)}
    BY Acts DEF Board!ConsumersKafka
  <2> QED BY <2>1, <2>2, RowRemoved
<1>16. ReadsAll(Board!ConsumersKinesis)
  BY Acts, Constructors, Waiting, Nothing
     DEF Board!ConsumersKinesis, Board!ConsumerDialogKinesis, Board!ConsumerSheetKinesis
<1>17. ReadsAll(Board!ConsumersNats)
  BY Acts, Constructors, Waiting, Nothing
     DEF Board!ConsumersNats, Board!ConsumerDialogNats
<1>18. ReadsAll(Board!ConsumersRedis)
  BY Acts, Constructors, Waiting, Nothing
     DEF Board!ConsumersRedis, Board!GroupDialog, Board!PositionDialog
<1>19. ReadsAll(Board!SubscriptionsActiveMQ)
  BY Acts, Constructors, Waiting, Nothing
     DEF Board!SubscriptionsActiveMQ, Board!SubscriptionDialogActiveMQ,
         Board!SubscriptionSheetActiveMQ
<1>20. ReadsAll(Board!SubscriptionsAzureServiceBus)
  BY Acts, Constructors, Waiting, Nothing
     DEF Board!SubscriptionsAzureServiceBus, Board!SubscriptionDialogAzureServiceBus,
         Board!SubscriptionSheetAzureServiceBus
<1>21. ReadsAll(Board!SubscriptionsGooglePubSub)
  BY Acts, Constructors, Waiting, Nothing
     DEF Board!SubscriptionsGooglePubSub, Board!SubscriptionDialogGooglePubSub,
         Board!SubscriptionSheetGooglePubSub
<1>22. ReadsAll(Board!SubscriptionsPulsar)
  <2>1. Board!ResetCursorDialogPulsar.awaits
    BY Waiting DEF Board!ResetCursorDialogPulsar
  <2>2. /\ ReadsAgain(Board!Form(Board!SubscriptionDialogPulsar, Board!List, Board!List))
        /\ ReadsAgain(Board!Then(Board!Form(Board!ResetCursorDialogPulsar, row, Board!List), Board!Panel))
    BY <2>1, Constructors
  <2>3. Board!SubscriptionsPulsar.acts =
          {Board!Form(Board!SubscriptionDialogPulsar, Board!List, Board!List),
           Board!Removed(row, Board!List),
           Board!Then(Board!Form(Board!ResetCursorDialogPulsar, row, Board!List), Board!Panel)}
    BY Acts DEF Board!SubscriptionsPulsar
  <2> QED BY <2>2, <2>3, RowRemoved
<1>23. ReadsAll(Board!DlqActiveMQ)
  BY Acts, Constructors, Waiting, Nothing
     DEF Board!DlqActiveMQ, Board!DeadLetterSheetActiveMQ
<1>24. ReadsAll(Board!DlqAzureServiceBus)
  BY Acts, Constructors, Waiting, Nothing
     DEF Board!DlqAzureServiceBus, Board!DeadLetterSheetAzureServiceBus
<1>25. ReadsAll(Board!DlqRabbitMQ)
  BY Acts, Constructors, Waiting
     DEF Board!DlqRabbitMQ, Board!MoveDialog
<1>26. ReadsAll(Board!DlqRocketMQ)
  BY Acts, Constructors, Waiting, Nothing
     DEF Board!DlqRocketMQ
<1>27. ReadsAll(Board!PelRedis)
  BY Acts, Constructors, Waiting, Nothing
     DEF Board!PelRedis, Board!ClaimDialog
<1>28. ReadsAll(Board!MessagesRedis)
  BY Acts, Constructors, Waiting, Nothing
     DEF Board!MessagesRedis
<1>29. ReadsAll(Board!MessagesRocketMQ)
  <2>1. /\ ReadsAgain(Board!Form(Board!ReplayDialog, Board!None, Board!None))
        /\ ReadsAgain(Board!Form(Board!ResendDialog, Board!None, Board!None))
    BY Constructors
  <2> QED BY <2>1, Nothing, Acts DEF Board!MessagesRocketMQ, Board!MessageSheetRocketMQ
<1>30. ReadsAll(Board!PoliciesRabbitMQ)
  BY Acts, Constructors, Waiting, Nothing
     DEF Board!PoliciesRabbitMQ, Board!PolicyDialog, Board!ParameterList
<1>31. ReadsAll(Board!QuotasKafka)
  BY Acts, Constructors, Waiting, Nothing
     DEF Board!QuotasKafka, Board!QuotaDialogKafka
<1>32. ReadsAll(Board!ReplicationRabbitMQ)
  BY Acts, Constructors, Waiting, Nothing
     DEF Board!ReplicationRabbitMQ, Board!ShovelCard, Board!UpstreamCard
<1>33. ReadsAll(Board!ProducerAzureServiceBus)
  BY Acts, Constructors, Waiting, Nothing
     DEF Board!ProducerAzureServiceBus
<1>34. ReadsAll(Board!ProducerGooglePubSub)
  BY Acts, Constructors, Waiting, Nothing
     DEF Board!ProducerGooglePubSub
<1>35. ReadsAll(Board!ProducerIbmMq)
  BY Acts, Constructors, Waiting, Nothing
     DEF Board!ProducerIbmMq
<1>36. ReadsAll(Board!ProducerKinesis)
  BY Acts, Constructors, Waiting, Nothing
     DEF Board!ProducerKinesis
<1>37. ReadsAll(Board!ProducerNsq)
  BY Acts, Constructors, Waiting, Nothing
     DEF Board!ProducerNsq
<1>38. ReadsAll(Board!ProducerPulsar)
  BY Acts, Constructors, Waiting, Nothing
     DEF Board!ProducerPulsar
<1>39. ReadsAll(Board!ProducerRedis)
  BY Acts, Constructors, Waiting, Nothing
     DEF Board!ProducerRedis
<1>40. ReadsAll(Board!ProducerSolace)
  BY Acts, Constructors, Waiting, Nothing
     DEF Board!ProducerSolace
<1>41. ReadsAll(Board!ProducerSqs)
  BY Acts, Constructors, Waiting, Nothing
     DEF Board!ProducerSqs
<1>42. ReadsAll(Board!DestinationsActiveMQ)
  BY Acts, Constructors, Waiting, Nothing
     DEF Board!DestinationsActiveMQ, Board!DestinationDialogActiveMQ,
         Board!DestinationSheetActiveMQ, Board!MoveDialogActiveMQ
<1>43. ReadsAll(Board!EntitiesAzureServiceBus)
  BY Acts, Constructors, Waiting, Nothing
     DEF Board!EntitiesAzureServiceBus, Board!EntityDialogAzureServiceBus,
         Board!EntitySheetAzureServiceBus
<1>44. ReadsAll(Board!RulesAzureServiceBus)
  BY Acts, Constructors, Waiting, Nothing
     DEF Board!RulesAzureServiceBus, Board!RuleDialogAzureServiceBus,
         Board!RuleSheetAzureServiceBus
<1>45. ReadsAll(Board!ExchangesRabbitMQ)
  BY Acts, Constructors, Waiting, Nothing
     DEF Board!ExchangesRabbitMQ, Board!ExchangeDialog, Board!BindingDialog,
         Board!ExchangeDetail, Board!BindingRow
<1>46. ReadsAll(Board!QueuesIbmMq)
  BY Acts, Constructors, Waiting, Nothing
     DEF Board!QueuesIbmMq, Board!QueueDialogIbmMq, Board!QueueSheetIbmMq
<1>47. ReadsAll(Board!QueuesRabbitMQ)
  BY Acts, Constructors, Waiting, Nothing
     DEF Board!QueuesRabbitMQ, Board!QueueDialog, Board!MoveDialog
<1>48. ReadsAll(Board!QueuesSolace)
  BY Acts, Constructors, Waiting, Nothing
     DEF Board!QueuesSolace, Board!QueueDialogSolace, Board!QueueSheetSolace
<1>49. ReadsAll(Board!RoutingSolace)
  BY Acts, Constructors, Waiting, Nothing
     DEF Board!RoutingSolace, Board!SubscriptionDialogSolace
<1>50. ReadsAll(Board!QueuesSqs)
  BY Acts, Constructors, Waiting, Nothing
     DEF Board!QueuesSqs, Board!QueueDialogSqs, Board!QueueSheetSqs
<1>51. ReadsAll(Board!StreamsKinesis)
  BY Acts, Constructors, Waiting, Nothing
     DEF Board!StreamsKinesis, Board!StreamDialogKinesis, Board!StreamSheetKinesis
<1>52. ReadsAll(Board!TopicsGooglePubSub)
  BY Acts, Constructors, Waiting, Nothing
     DEF Board!TopicsGooglePubSub, Board!TopicDialogGooglePubSub, Board!TopicSheetGooglePubSub
<1>53. ReadsAll(Board!TopicsNsq)
  BY Acts, Constructors, Waiting, Nothing
     DEF Board!TopicsNsq, Board!TopicDialogNsq, Board!TopicSheetNsq
<1>54. ReadsAll(Board!TopicsKafka)
  <2>1. /\ ReadsAgain(Board!Form(Board!TopicDialogKafka, Board!List, Board!List))
        /\ ReadsAgain(Board!Form(Board!ReassignDialogKafka, Board!Panel, Board!Panel))
        /\ ReadsAgain(Board!Asked(row, row))
    BY Constructors
  <2>2. Board!TopicsKafka.acts =
          {Board!Form(Board!TopicDialogKafka, Board!List, Board!List),
           Board!Form(Board!ReassignDialogKafka, Board!Panel, Board!Panel),
           Board!Asked(row, row), Board!Removed(row, Board!List)}
    BY Acts DEF Board!TopicsKafka
  <2> QED BY <2>1, <2>2, RowRemoved
<1>55. ReadsAll(Board!TopicsPulsar)
  <2>1. ReadsAgain(Board!Form(Board!TopicDialogPulsar, Board!List, Board!List))
    BY Constructors
  <2>2. Board!TopicsPulsar.acts =
          {Board!Form(Board!TopicDialogPulsar, Board!List, Board!List), Board!Removed(row, Board!List)}
    BY Acts DEF Board!TopicsPulsar
  <2> QED BY <2>1, <2>2, RowRemoved
<1>56. ReadsAll(Board!NamespacesPulsar)
  BY Acts, Constructors, Waiting, Nothing
     DEF Board!NamespacesPulsar, Board!NamespaceDialogPulsar, Board!NamespaceLimitsPulsar
<1>57. ReadsAll(Board!VhostsRabbitMQ)
  BY Acts, Constructors, Waiting, Nothing
     DEF Board!VhostsRabbitMQ, Board!VhostDialog, Board!VhostDetail, Board!LimitRow
<1>58. ReadsAll(Board!DefinitionsRabbitMQ)
  BY Acts, Constructors, Waiting, Nothing
     DEF Board!DefinitionsRabbitMQ
<1>59. ReadsAll(Board!Producer)
  BY Acts, Constructors, Waiting, Nothing
     DEF Board!Producer
<1>60. ReadsAll(Board!ProducerActiveMQ)
  BY Acts, Constructors, Waiting, Nothing
     DEF Board!ProducerActiveMQ
<1>61. ReadsAll(Board!ProducerKafka)
  BY Acts, Constructors, Waiting, Nothing
     DEF Board!ProducerKafka
<1>62. ReadsAll(Board!ProducerMqtt)
  BY Acts, Constructors, Waiting, Nothing
     DEF Board!ProducerMqtt
<1>63. ReadsAll(Board!ProducerNats)
  BY Acts, Constructors, Waiting, Nothing
     DEF Board!ProducerNats
<1>64. ReadsAll(Board!ProducerRabbitMQ)
  BY Acts, Constructors, Waiting, Nothing
     DEF Board!ProducerRabbitMQ
<1>65. /\ ReadsAll(Board!OverviewActiveMQ) /\ ReadsAll(Board!OverviewAzureServiceBus) /\ ReadsAll(Board!OverviewGooglePubSub)
      /\ ReadsAll(Board!OverviewIbmMq) /\ ReadsAll(Board!OverviewKafka) /\ ReadsAll(Board!OverviewKinesis)
      /\ ReadsAll(Board!OverviewMqtt) /\ ReadsAll(Board!OverviewNats) /\ ReadsAll(Board!OverviewNsq)
      /\ ReadsAll(Board!OverviewPulsar) /\ ReadsAll(Board!OverviewRabbitMQ) /\ ReadsAll(Board!OverviewRedis)
  BY Acts DEF Board!None, Board!OverviewActiveMQ, Board!Read3, Board!OverviewAzureServiceBus,
         Board!Read2, Board!OverviewGooglePubSub, Board!OverviewIbmMq,
         Board!OverviewKafka, Board!Read1, Board!OverviewKinesis, Board!OverviewMqtt,
         Board!OverviewNats, Board!OverviewNsq, Board!OverviewPulsar,
         Board!OverviewRabbitMQ, Board!OverviewRedis
<1>66. /\ ReadsAll(Board!OverviewRocketMQ) /\ ReadsAll(Board!OverviewSolace) /\ ReadsAll(Board!OverviewSqs)
      /\ ReadsAll(Board!BrokerActiveMQ) /\ ReadsAll(Board!BrokerSolace) /\ ReadsAll(Board!BrokersKafka)
      /\ ReadsAll(Board!BrokersPulsar) /\ ReadsAll(Board!ClusterNsq) /\ ReadsAll(Board!NodesMqtt)
      /\ ReadsAll(Board!NodesRabbitMQ) /\ ReadsAll(Board!ServersNats) /\ ReadsAll(Board!ChannelsIbmMq)
  BY Acts DEF Board!None, Board!OverviewRocketMQ, Board!Read1, Board!OverviewSolace,
         Board!Read2, Board!OverviewSqs, Board!BrokerActiveMQ, Board!BrokerSheetActiveMQ,
         Board!BrokerSolace, Board!BrokersKafka, Board!KafkaTransactionsPanel,
         Board!BrokersPulsar, Board!ClusterNsq, Board!NodeSheetNsq, Board!NodesMqtt,
         Board!NodesRabbitMQ, Board!ServersNats, Board!ReadRow, Board!ChannelsIbmMq
<1>67. /\ ReadsAll(Board!ClientsNsq) /\ ReadsAll(Board!ClientsSolace) /\ ReadsAll(Board!SubscriptionsIbmMq)
      /\ ReadsAll(Board!TopicsMqtt) /\ ReadsAll(Board!AccountsNats) /\ ReadsAll(Board!DlqGooglePubSub)
      /\ ReadsAll(Board!DlqIbmMq) /\ ReadsAll(Board!DlqPulsar) /\ ReadsAll(Board!DlqSolace)
      /\ ReadsAll(Board!DlqSqs)
  BY Acts DEF Board!None, Board!ClientsNsq, Board!Read1, Board!ClientsSolace,
         Board!SubscriptionsIbmMq, Board!TopicsMqtt, Board!AccountsNats,
         Board!DlqGooglePubSub, Board!DlqIbmMq, Board!DlqPulsar, Board!Read2,
         Board!DlqSolace, Board!DlqSqs
<1> HIDE DEF ReadsAll
<1> QED BY <1>1, <1>2, <1>3, <1>4, <1>5, <1>6, <1>7, <1>8, <1>9, <1>10, <1>11, <1>12,
           <1>13, <1>14, <1>15, <1>16, <1>17, <1>18, <1>19, <1>20, <1>21, <1>22, <1>23,
           <1>24, <1>25, <1>26, <1>27, <1>28, <1>29, <1>30, <1>31, <1>32, <1>33, <1>34,
           <1>35, <1>36, <1>37, <1>38, <1>39, <1>40, <1>41, <1>42, <1>43, <1>44, <1>45,
           <1>46, <1>47, <1>48, <1>49, <1>50, <1>51, <1>52, <1>53, <1>54, <1>55, <1>56,
           <1>57, <1>58, <1>59, <1>60, <1>61, <1>62, <1>63, <1>64, <1>65, <1>66, <1>67
       DEF Board!Pages, Board!LeaveBehind
--------------------------------------------------------------------------------
(* The boards: requests and the buttons that are off because of them. *)

(* A button that is off for as long as its request is under way: its dialog neither
   forgets it nor goes with a panel. *)
Held(a) == a.guarded /\ ~a.dialog.forgets /\ ~a.dialog.inPanel

Requesting ==
    /\ Board!IsABag(calls) /\ Board!UnderWay \subseteq Board!Requests
    /\ saving \subseteq {a \in page.acts : a.guarded}
    /\ Board!SavingHasCall /\ Board!OneRequestAtATime
    /\ \A c \in Board!UnderWay : Held(c.act) => c.act \in saving

(* What happens to a bag of requests. *)
LEMMA OneMore ==
    ASSUME Board!IsABag(calls), NEW c, calls' = Board!(+)(calls, Board!SetToBag({c}))
    PROVE  /\ Board!IsABag(calls') /\ DOMAIN calls' = DOMAIN calls \cup {c}
           /\ \A d \in DOMAIN calls : d # c => calls'[d] = calls[d]
           /\ c \notin DOMAIN calls => calls'[c] = 1
BY DEF Board!IsABag, Board!SetToBag, Board!(+)

LEMMA OneLess ==
    ASSUME Board!IsABag(calls), NEW c \in DOMAIN calls, Board!Over(c)
    PROVE  /\ Board!IsABag(calls')
           /\ DOMAIN calls' \subseteq DOMAIN calls /\ DOMAIN calls \ {c} \subseteq DOMAIN calls'
           /\ \A d \in DOMAIN calls' : d # c => calls'[d] = calls[d]
           /\ calls[c] = 1 => c \notin DOMAIN calls'
BY DEF Board!IsABag, Board!SetToBag, Board!(-), Board!Over

LEMMA OneOn ==
    ASSUME Board!IsABag(calls), NEW c \in DOMAIN calls, NEW stage_, Board!Step(c, stage_),
           [c EXCEPT !.stage = stage_] # c
    PROVE  LET d == [c EXCEPT !.stage = stage_] IN
           /\ Board!IsABag(calls')
           /\ DOMAIN calls' \subseteq DOMAIN calls \cup {d}
           /\ DOMAIN calls \ {c} \subseteq DOMAIN calls' /\ d \in DOMAIN calls'
           /\ \A e \in DOMAIN calls' : e # c /\ e # d => calls'[e] = calls[e]
           /\ calls[c] = 1 => c \notin DOMAIN calls'
           /\ d \notin DOMAIN calls => calls'[d] = 1
<1> DEFINE d == [c EXCEPT !.stage = stage_]
           less == [e \in {e \in DOMAIN calls : IF e = c THEN calls[e] - 1 > 0 ELSE calls[e] > 0} |->
                        IF e = c THEN calls[e] - 1 ELSE calls[e]]
<1>1. Board!(-)(calls, Board!SetToBag({c})) = less
  BY DEF Board!IsABag, Board!SetToBag, Board!(-)
<1>2. calls' = Board!(+)(less, Board!SetToBag({d}))
  BY <1>1 DEF Board!Step
<1>3. DOMAIN less \subseteq DOMAIN calls /\ \A e \in DOMAIN calls : calls[e] \in Nat /\ calls[e] > 0
  BY DEF Board!IsABag
<1>4. /\ DOMAIN less = {e \in DOMAIN calls : e = c => calls[e] > 1}
      /\ \A e \in DOMAIN less : less[e] \in Nat /\ less[e] > 0 /\ (e # c => less[e] = calls[e])
  BY <1>3
<1> HIDE DEF less, d
<1>5. calls' = [e \in DOMAIN less \cup {d} |-> (IF e \in DOMAIN less THEN less[e] ELSE 0) + (IF e = d THEN 1 ELSE 0)]
  BY <1>2 DEF Board!SetToBag, Board!(+)
<1>6. c # d
  BY DEF d
<1>7. DOMAIN calls' = DOMAIN less \cup {d}
  BY <1>5
<1>8. \A e \in DOMAIN calls' : calls'[e] \in Nat /\ calls'[e] > 0
  BY <1>4, <1>5
<1>9. Board!IsABag(calls')
  BY <1>5, <1>8 DEF Board!IsABag
<1>10. \A e \in DOMAIN calls' : e # c /\ e # d => calls'[e] = calls[e]
  BY <1>4, <1>5
<1>11. d \notin DOMAIN calls => calls'[d] = 1
  BY <1>3, <1>5
<1> QED BY <1>3, <1>4, <1>6, <1>7, <1>9, <1>10, <1>11 DEF d

(* A request is made by a button that was not off. *)
LEMMA RequestKeeps ==
    ASSUME Requesting, NEW a \in page.acts, a.guarded => a \notin saving,
           Board!Request(a), UNCHANGED page
    PROVE  Requesting' /\ Board!UnderWay' = Board!UnderWay \cup {[act |-> a, stage |-> "sent"]}
<1> DEFINE new == [act |-> a, stage |-> "sent"]
<1>1. /\ Board!IsABag(calls') /\ DOMAIN calls' = DOMAIN calls \cup {new}
      /\ \A d \in DOMAIN calls : d # new => calls'[d] = calls[d]
      /\ new \notin DOMAIN calls => calls'[new] = 1
  BY OneMore DEF Requesting, Board!Request
<1>2. new \in Board!Requests /\ new.act = a /\ new.stage = "sent" /\ UNCHANGED Board!Requests
  BY DEF Board!Requests
<1> HIDE DEF new
<1>3. saving' = IF a.guarded THEN saving \cup {a} ELSE saving
  BY DEF Board!Request
<1>4. Board!UnderWay' = Board!UnderWay \cup {new}
  BY <1>1 DEF Board!UnderWay, Board!BagToSet
<1>5. Board!UnderWay' \subseteq Board!Requests' /\ saving' \subseteq {b \in page'.acts : b.guarded}
  BY <1>2, <1>3, <1>4 DEF Requesting
<1>6. Board!SavingHasCall' /\ \A c \in Board!UnderWay' : Held(c.act) => c.act \in saving'
  BY <1>2, <1>3, <1>4 DEF Requesting, Board!SavingHasCall, Held
<1>7. Board!OneRequestAtATime'
  <2> SUFFICES ASSUME NEW c \in Board!UnderWay', NEW d \in Board!UnderWay',
                      c.act = d.act, Held(c.act)
               PROVE  c = d /\ calls'[c] = 1
    BY DEF Board!OneRequestAtATime, Held
  <2>1. CASE c.act = a
    <3>1. \A e \in Board!UnderWay : e.act # a
      BY <2>1 DEF Requesting, Held
    <3>2. c = new /\ d = new /\ new \notin DOMAIN calls
      BY <1>2, <1>4, <2>1, <3>1 DEF Board!UnderWay, Board!BagToSet
    <3> QED BY <1>1, <3>2
  <2>2. CASE c.act # a
    <3>1. c \in Board!UnderWay /\ d \in Board!UnderWay /\ c # new
      BY <1>2, <1>4, <2>2
    <3>2. c = d /\ calls[c] = 1
      BY <3>1 DEF Requesting, Board!OneRequestAtATime, Held
    <3> QED BY <1>1, <3>1, <3>2 DEF Board!UnderWay, Board!BagToSet
  <2> QED BY <2>1, <2>2
<1> QED BY <1>1, <1>4, <1>5, <1>6, <1>7 DEF Requesting, new

(* A request that ends turns its button on. *)
LEMMA EndKeeps ==
    ASSUME Requesting, NEW c \in Board!UnderWay, Board!Over(c), saving' = saving \ {c.act},
           UNCHANGED page
    PROVE  /\ Requesting'
           /\ Board!UnderWay' \subseteq Board!UnderWay /\ Board!UnderWay \ {c} \subseteq Board!UnderWay'
<1>1. /\ Board!IsABag(calls')
      /\ DOMAIN calls' \subseteq DOMAIN calls /\ DOMAIN calls \ {c} \subseteq DOMAIN calls'
      /\ \A d \in DOMAIN calls' : d # c => calls'[d] = calls[d]
      /\ calls[c] = 1 => c \notin DOMAIN calls'
  BY OneLess DEF Requesting, Board!UnderWay, Board!BagToSet
<1>2. /\ Board!UnderWay' \subseteq Board!UnderWay /\ Board!UnderWay \ {c} \subseteq Board!UnderWay'
      /\ \A d \in Board!UnderWay' : d # c => calls'[d] = calls[d]
      /\ calls[c] = 1 => c \notin Board!UnderWay'
  BY <1>1 DEF Board!UnderWay, Board!BagToSet
<1>3. UNCHANGED Board!Requests
  BY DEF Board!Requests
<1>4. Board!SavingHasCall'
  BY <1>2 DEF Requesting, Board!SavingHasCall
<1>5. \A d \in Board!UnderWay : d.act = c.act /\ Held(c.act) => d = c /\ calls[c] = 1
  BY DEF Requesting, Board!OneRequestAtATime, Held
<1>6. \A d \in Board!UnderWay' : Held(d.act) => d.act # c.act
  BY <1>2, <1>5
<1>7. \A d \in Board!UnderWay' : Held(d.act) => d.act \in saving'
  BY <1>2, <1>6 DEF Requesting
<1>8. Board!OneRequestAtATime'
  <2> SUFFICES ASSUME NEW d \in Board!UnderWay', NEW e \in Board!UnderWay',
                      d.act = e.act, Held(d.act)
               PROVE  d = e /\ calls'[d] = 1
    BY DEF Board!OneRequestAtATime, Held
  <2>1. d = e /\ calls[d] = 1
    BY <1>2 DEF Requesting, Board!OneRequestAtATime, Held
  <2> QED BY <1>2, <1>6, <2>1
<1> QED BY <1>1, <1>2, <1>3, <1>4, <1>7, <1>8 DEF Requesting

(* A request goes on; buttons that are not held may come on. *)
LEMMA StepKeeps ==
    ASSUME Requesting, NEW c \in Board!UnderWay, NEW stage_ \in {"made", "failed", "reading"},
           c.stage # stage_, Board!Step(c, stage_),
           saving' \subseteq saving, \A a \in saving : Held(a) => a \in saving',
           UNCHANGED page
    PROVE  /\ Requesting'
           /\ \E d \in Board!UnderWay' :
                 /\ d.act = c.act /\ d.stage = stage_
                 /\ Board!UnderWay' \subseteq Board!UnderWay \cup {d}
                 /\ Board!UnderWay \ {c} \subseteq Board!UnderWay'
<1> DEFINE d == [c EXCEPT !.stage = stage_]
<1>1. c \in Board!Requests
  BY DEF Requesting
<1>2. d \in Board!Requests /\ d.act = c.act /\ d.stage = stage_ /\ d # c /\ UNCHANGED Board!Requests
  BY <1>1 DEF Board!Requests
<1>3. /\ Board!IsABag(calls')
      /\ DOMAIN calls' \subseteq DOMAIN calls \cup {d}
      /\ DOMAIN calls \ {c} \subseteq DOMAIN calls' /\ d \in DOMAIN calls'
      /\ \A e \in DOMAIN calls' : e # c /\ e # d => calls'[e] = calls[e]
      /\ calls[c] = 1 => c \notin DOMAIN calls'
      /\ d \notin DOMAIN calls => calls'[d] = 1
  BY <1>2, OneOn DEF Requesting, Board!UnderWay, Board!BagToSet
<1> HIDE DEF d
<1>4. /\ Board!UnderWay' \subseteq Board!UnderWay \cup {d}
      /\ Board!UnderWay \ {c} \subseteq Board!UnderWay' /\ d \in Board!UnderWay'
      /\ \A e \in Board!UnderWay' : e # c /\ e # d => calls'[e] = calls[e]
      /\ calls[c] = 1 => c \notin Board!UnderWay'
      /\ d \notin Board!UnderWay => calls'[d] = 1
  BY <1>3 DEF Board!UnderWay, Board!BagToSet
<1>5. Board!SavingHasCall'
  <2> SUFFICES ASSUME NEW a \in saving' PROVE \E e \in Board!UnderWay' : e.act = a
    BY DEF Board!SavingHasCall
  <2>1. PICK e \in Board!UnderWay : e.act = a
    BY DEF Requesting, Board!SavingHasCall
  <2> QED BY <1>2, <1>4, <2>1
<1>6. \A e \in Board!UnderWay' : Held(e.act) => e.act \in saving'
  BY <1>2, <1>4 DEF Requesting
<1>7. Board!OneRequestAtATime'
  <2> SUFFICES ASSUME NEW e \in Board!UnderWay', NEW f \in Board!UnderWay',
                      e.act = f.act, Held(e.act)
               PROVE  e = f /\ calls'[e] = 1
    BY DEF Board!OneRequestAtATime, Held
  <2>1. CASE e.act = c.act
    <3>1. \A g \in Board!UnderWay : g.act = c.act => g = c /\ calls[c] = 1
      BY <2>1 DEF Requesting, Board!OneRequestAtATime, Held
    <3>2. calls[c] = 1 /\ d \notin Board!UnderWay /\ c \notin Board!UnderWay'
      BY <1>2, <1>4, <3>1
    <3>3. e = d /\ f = d
      BY <1>4, <2>1, <3>1, <3>2
    <3> QED BY <1>4, <3>2, <3>3
  <2>2. CASE e.act # c.act
    <3>1. e \in Board!UnderWay /\ f \in Board!UnderWay /\ e # c /\ e # d
      BY <1>2, <1>4, <2>2
    <3>2. e = f /\ calls[e] = 1
      BY <3>1 DEF Requesting, Board!OneRequestAtATime, Held
    <3> QED BY <1>4, <3>1, <3>2
  <2> QED BY <2>1, <2>2
<1>8. Board!UnderWay' \subseteq Board!Requests' /\ saving' \subseteq {a \in page'.acts : a.guarded}
  BY <1>2, <1>4 DEF Requesting
<1> QED BY <1>2, <1>3, <1>4, <1>5, <1>6, <1>7, <1>8 DEF Requesting

(* Buttons that are not held may come on by themselves. *)
LEMMA ReleaseKeeps ==
    ASSUME Requesting, UNCHANGED <<page, calls>>, saving' \subseteq saving,
           \A a \in saving : Held(a) => a \in saving'
    PROVE  Requesting' /\ Board!UnderWay' = Board!UnderWay
<1>1. UNCHANGED Board!Requests /\ UNCHANGED Board!UnderWay
  BY DEF Board!Requests, Board!UnderWay, Board!BagToSet
<1> QED BY <1>1 DEF Requesting, Board!SavingHasCall, Board!OneRequestAtATime

--------------------------------------------------------------------------------
(* What the page shows. *)

Marks == {"closed", "current", "behind", "reading", "readingOld"}
Old(v) == shown[v] \in {"behind", "readingOld"}
(* A handler has still to read it again. *)
Due(v) == \E c \in Board!UnderWay : \/ c.stage = "made" /\ v \in c.act.alters
                                    \/ c.stage = "reading" /\ v \in c.act.later

Screen ==
    /\ shown \in [Board!Views -> Marks] /\ unsure = Board!Outdated(unsure, shown)
    /\ page \notin Board!LeaveBehind => \A v \in Board!Views \ unsure : Old(v) => Due(v)

(* At most one question or dialog is open, and a question is about a button that is on. *)
Asking ==
    /\ question \in SUBSET page.acts /\ dialog \in SUBSET page.acts
    /\ \A a, b \in question : a = b
    /\ \A a, b \in dialog : a = b
    /\ question = {} \/ dialog = {}
    /\ \A a \in question : a.guarded => a \notin saving

BoardInv == page \in Board!Pages /\ Asking /\ Requesting /\ Screen

(* It says what the run checks. *)
LEMMA BoardInvImplies ==
    BoardInv => Board!TypeOK /\ Board!SavingHasCall /\ Board!OneRequestAtATime /\ Board!ChangeIsShown
<1> SUFFICES ASSUME BoardInv
             PROVE  Board!TypeOK /\ Board!SavingHasCall /\ Board!OneRequestAtATime /\ Board!ChangeIsShown
  OBVIOUS
<1>2. Board!TypeOK
  BY DEF BoardInv, Asking, Requesting, Screen, Marks, Board!TypeOK
<1>3. Board!ChangeIsShown
  BY DEF BoardInv, Screen, Old, Due, Board!ChangeIsShown
<1> QED BY <1>2, <1>3 DEF BoardInv, Requesting

LEMMA BoardInitInv == Board!Init => BoardInv
<1> SUFFICES ASSUME Board!Init PROVE BoardInv
  OBVIOUS
<1> USE DEF Board!Init
<1>1. DOMAIN calls = {} /\ Board!UnderWay = {} /\ Board!IsABag(calls)
  BY DEF Board!EmptyBag, Board!SetToBag, Board!UnderWay, Board!BagToSet, Board!IsABag
<1>2. Requesting
  BY <1>1 DEF Requesting, Board!SavingHasCall, Board!OneRequestAtATime
<1>3. Screen
  BY DEF Screen, Marks, Old, Board!Outdated
<1> QED BY <1>2, <1>3 DEF BoardInv, Asking

(* Reads that start over, and reads a change passes. *)
LEMMA ReadingOver ==
    ASSUME NEW now \in [Board!Views -> Marks], NEW views
    PROVE  /\ Board!Reading(views, now) \in [Board!Views -> Marks]
           /\ \A v \in Board!Views :
                 Board!Reading(views, now)[v] = IF v \in views /\ now[v] # "closed" THEN "reading" ELSE now[v]
BY DEF Board!Reading, Marks

LEMMA Altering ==
    ASSUME shown \in [Board!Views -> Marks], NEW views
    PROVE  /\ Board!Altered(views) \in [Board!Views -> Marks]
           /\ \A v \in Board!Views : v \notin views => Board!Altered(views)[v] = shown[v]
BY DEF Board!Altered, Marks

LEMMA ScreenTypes ==
    ASSUME BoardInv
    PROVE  /\ shown \in [Board!Views -> Marks] /\ unsure \subseteq Board!Views
           /\ \A v \in unsure : Old(v)
           /\ page \notin Board!LeaveBehind => \A v \in Board!Views \ unsure : Old(v) => Due(v)
BY DEF BoardInv, Screen, Old, Board!Outdated

(* What is on screen after a step: nothing old that no handler has still to read. *)
LEMMA ScreenNext ==
    ASSUME BoardInv, UNCHANGED page, shown' \in [Board!Views -> Marks],
           unsure' \subseteq Board!Views,
           \A v \in unsure' : shown'[v] \in {"behind", "readingOld"},
           page \notin Board!LeaveBehind =>
               \A v \in Board!Views \ unsure' : shown'[v] \in {"behind", "readingOld"} => Due(v)'
    PROVE  Screen'
<1>1. UNCHANGED Board!Views
  BY DEF Board!Views
<1>2. unsure' = Board!Outdated(unsure', shown')
  BY DEF Board!Outdated
<1> QED BY <1>1, <1>2 DEF Screen, Old

LEMMA ReadsKeep ==
    ASSUME BoardInv, NEW v \in Board!Views, Board!Poll(v) \/ Board!Land(v)
    PROVE  BoardInv'
<1> USE ScreenTypes DEF Old
<1>1. CASE Board!Poll(v)
  <2>1. UNCHANGED <<page, question, dialog, saving, calls>>
        /\ shown' = Board!Reading({v}, shown) /\ unsure' = unsure \ {v}
    BY <1>1 DEF Board!Poll
  <2>2. Requesting' /\ UNCHANGED Board!UnderWay
    BY <2>1, ReleaseKeeps DEF BoardInv
  <2>3. /\ shown' \in [Board!Views -> Marks]
        /\ \A u \in Board!Views : shown'[u] = IF u \in {v} /\ shown[u] # "closed" THEN "reading" ELSE shown[u]
    BY <2>1, ReadingOver
  <2>4. \A u \in Board!Views \ unsure' : shown'[u] \in {"behind", "readingOld"} => u \notin unsure /\ Old(u)
    BY <2>1, <2>3
  <2>5. page \notin Board!LeaveBehind =>
            \A u \in Board!Views \ unsure' : shown'[u] \in {"behind", "readingOld"} => Due(u)'
    BY <2>2, <2>4 DEF Due
  <2>6. unsure' \subseteq Board!Views /\ \A u \in unsure' : shown'[u] \in {"behind", "readingOld"}
    BY <2>1, <2>3
  <2>7. Screen'
    BY <2>1, <2>3, <2>5, <2>6, ScreenNext
  <2> QED BY <2>1, <2>2, <2>7 DEF BoardInv, Asking
<1>2. CASE Board!Land(v)
  <2>1. UNCHANGED <<page, question, dialog, calls>> /\ unsure' = Board!Outdated(unsure, shown')
    BY <1>2 DEF Board!Land
  <2>2. PICK old \in {shown[v] = "readingOld", FALSE} :
          shown' = [shown EXCEPT ![v] = IF old THEN "behind" ELSE "current"]
    BY <1>2 DEF Board!Land
  <2>3. /\ shown' \in [Board!Views -> Marks]
        /\ \A u \in Board!Views : shown'[u] \in {"behind", "readingOld"} => Old(u)
    BY <2>2 DEF Marks
  <2>4. saving' \subseteq saving /\ \A a \in saving : Held(a) => a \in saving'
    BY <1>2 DEF Board!Land, Held
  <2>5. Requesting' /\ UNCHANGED Board!UnderWay
    BY <2>1, <2>4, ReleaseKeeps DEF BoardInv
  <2>6. unsure' \subseteq Board!Views /\ \A u \in unsure' : shown'[u] \in {"behind", "readingOld"}
    BY <2>1 DEF Board!Outdated
  <2>7. \A u \in Board!Views \ unsure' : shown'[u] \in {"behind", "readingOld"} => u \notin unsure /\ Old(u)
    BY <2>1, <2>3 DEF Board!Outdated
  <2>8. page \notin Board!LeaveBehind =>
            \A u \in Board!Views \ unsure' : shown'[u] \in {"behind", "readingOld"} => Due(u)'
    BY <2>5, <2>7 DEF Due
  <2>9. Screen'
    BY <2>1, <2>3, <2>6, <2>8, ScreenNext
  <2> QED BY <2>1, <2>4, <2>5, <2>9 DEF BoardInv, Asking
<1> QED BY <1>1, <1>2

(* A row's panel is read, or closed. *)
LEMMA PanelKeeps == ASSUME BoardInv, Board!Select \/ Board!Dismiss PROVE BoardInv'
<1> USE ScreenTypes DEF Old
<1>1. /\ UNCHANGED <<page, question, dialog, calls>>
      /\ unsure' = unsure \ Board!Panel /\ saving' = saving \ Board!InThePanel
      /\ "panel" \in Board!Views
  BY DEF Board!Select, Board!Dismiss, Board!Panel
<1>2. /\ shown' \in [Board!Views -> Marks]
      /\ \A u \in Board!Views : u \notin Board!Panel => shown'[u] = shown[u]
      /\ \A u \in Board!Panel : shown'[u] \in {"reading", "closed"}
  BY <1>1 DEF Board!Select, Board!Dismiss, Board!WithoutPanel, Board!Panel, Marks
<1>3. Requesting' /\ UNCHANGED Board!UnderWay
  <2>1. \A a \in saving : Held(a) => a \in saving'
    BY <1>1 DEF Board!InThePanel, Held
  <2> QED BY <1>1, <2>1, ReleaseKeeps DEF BoardInv
<1>4. \A u \in Board!Views \ unsure' : shown'[u] \in {"behind", "readingOld"} => u \notin unsure /\ Old(u)
  BY <1>1, <1>2
<1>5. page \notin Board!LeaveBehind =>
          \A u \in Board!Views \ unsure' : shown'[u] \in {"behind", "readingOld"} => Due(u)'
  BY <1>3, <1>4 DEF Due
<1>6. unsure' \subseteq Board!Views /\ \A u \in unsure' : shown'[u] \in {"behind", "readingOld"}
  BY <1>1, <1>2
<1>7. Screen'
  BY <1>1, <1>2, <1>5, <1>6, ScreenNext
<1> QED BY <1>1, <1>3, <1>7 DEF BoardInv, Asking

(* Buttons, questions and dialogs: nothing on screen changes but more may be due. *)
LEMMA ScreenRests ==
    ASSUME BoardInv, UNCHANGED <<page, shown, unsure>>, Board!UnderWay \subseteq Board!UnderWay'
    PROVE  Screen'
<1>1. UNCHANGED Board!Views
  BY DEF Board!Views
<1> QED BY <1>1, ScreenTypes, ScreenNext DEF Due, Old

LEMMA ButtonsKeep ==
    ASSUME BoardInv, NEW a \in page.acts,
           \/ Board!Press(a) \/ Board!Ask(a) \/ Board!AnswerYes(a) \/ Board!Open(a)
           \/ Board!SubmitForm(a)
    PROVE  BoardInv'
<1>1. CASE Board!Press(a) \/ Board!AnswerYes(a) \/ Board!SubmitForm(a)
  <2>1. Board!Request(a) /\ UNCHANGED <<page, dialog, shown, unsure>> /\ (a.guarded => a \notin saving)
    BY <1>1 DEF Board!Press, Board!AnswerYes, Board!SubmitForm, BoardInv, Asking
  <2>2. Requesting' /\ Board!UnderWay' = Board!UnderWay \cup {[act |-> a, stage |-> "sent"]}
    BY <2>1, RequestKeeps DEF BoardInv
  <2>3. Screen'
    BY <2>1, <2>2, ScreenRests
  <2>4. Asking'
    <3>1. question' = {} \/ (dialog # {} /\ question' = question)
      BY <1>1 DEF Board!Press, Board!AnswerYes, Board!SubmitForm, Board!Free
    <3>2. question' = {}
      BY <3>1 DEF BoardInv, Asking
    <3> QED BY <2>1, <3>2 DEF BoardInv, Asking
  <2> QED BY <2>1, <2>2, <2>3, <2>4 DEF BoardInv
<1>2. CASE Board!Ask(a)
  <2>1. UNCHANGED <<page, dialog, saving, calls, shown, unsure>> /\ question' = {a} /\ dialog = {}
        /\ (a.guarded => a \notin saving)
    BY <1>2 DEF Board!Ask, Board!Free
  <2>2. Requesting' /\ Board!UnderWay' = Board!UnderWay
    BY <2>1, ReleaseKeeps DEF BoardInv
  <2>3. Screen'
    BY <2>1, <2>2, ScreenRests
  <2>4. Asking'
    BY <2>1 DEF Asking
  <2> QED BY <2>1, <2>2, <2>3, <2>4 DEF BoardInv
<1>3. CASE Board!Open(a)
  <2>1. UNCHANGED <<page, question, calls, shown, unsure>> /\ dialog' = {a} /\ question = {}
        /\ saving' \subseteq saving /\ \A b \in saving : Held(b) => b \in saving'
    BY <1>3 DEF Board!Open, Board!Free, Held
  <2>2. Requesting' /\ Board!UnderWay' = Board!UnderWay
    BY <2>1, ReleaseKeeps DEF BoardInv
  <2>3. Screen'
    BY <2>1, <2>2, ScreenRests
  <2>4. Asking'
    BY <2>1 DEF Asking
  <2> QED BY <2>1, <2>2, <2>3, <2>4 DEF BoardInv
<1> QED BY <1>1, <1>2, <1>3

LEMMA ClosingKeeps == ASSUME BoardInv, Board!AnswerNo \/ Board!Cancel PROVE BoardInv'
<1>1. /\ UNCHANGED <<page, saving, calls, shown, unsure>>
      /\ question' \subseteq question /\ dialog' \subseteq dialog
  BY DEF Board!AnswerNo, Board!Cancel
<1>2. Requesting' /\ Board!UnderWay' = Board!UnderWay
  BY <1>1, ReleaseKeeps DEF BoardInv
<1>3. Screen'
  BY <1>1, <1>2, ScreenRests
<1> QED BY <1>1, <1>2, <1>3 DEF BoardInv, Asking

(* The broker answers: what it changed is still to be read, or was told to have failed. *)
LEMMA BrokerKeeps == ASSUME BoardInv, NEW c \in Board!UnderWay, Board!Broker(c) PROVE BoardInv'
<1> USE ScreenTypes DEF Old
<1>0. UNCHANGED <<page, question, dialog, saving>> /\ c.stage = "sent"
  BY DEF Board!Broker
<1>1. ASSUME NEW stage_ \in {"made", "failed"}, Board!Step(c, stage_)
      PROVE  /\ Requesting' /\ \A v : Due(v) => Due(v)'
             /\ stage_ = "made" => \A v \in c.act.alters : Due(v)'
  <2>1. /\ Requesting'
        /\ \E d \in Board!UnderWay' :
              /\ d.act = c.act /\ d.stage = stage_
              /\ Board!UnderWay' \subseteq Board!UnderWay \cup {d}
              /\ Board!UnderWay \ {c} \subseteq Board!UnderWay'
    BY <1>0, <1>1, StepKeeps DEF BoardInv
  <2>2. \A e \in Board!UnderWay : e.stage # "sent" => e \in Board!UnderWay'
    BY <1>0, <2>1
  <2>3. \A v : Due(v) => Due(v)'
    BY <2>2 DEF Due
  <2> QED BY <2>1, <2>3 DEF Due
<1>2. Requesting'
  BY <1>1 DEF Board!Broker
<1>3. /\ Board!Altered(c.act.alters) \in [Board!Views -> Marks]
      /\ \A v \in Board!Views : v \notin c.act.alters => Board!Altered(c.act.alters)[v] = shown[v]
      /\ \A v \in Board!Views : Old(v) => Board!Altered(c.act.alters)[v] = shown[v]
  BY DEF Board!Altered, Marks
<1>4. Screen'
  <2>1. CASE Board!Step(c, "made") /\ shown' = Board!Altered(c.act.alters) /\ UNCHANGED unsure
    <3>1. (\A v : Due(v) => Due(v)') /\ \A v \in c.act.alters : Due(v)'
      BY <1>1, <2>1
    <3>2. unsure' \subseteq Board!Views /\ \A v \in unsure' : shown'[v] \in {"behind", "readingOld"}
      BY <1>3, <2>1
    <3>3. page \notin Board!LeaveBehind =>
              \A v \in Board!Views \ unsure' : shown'[v] \in {"behind", "readingOld"} => Due(v)'
      BY <1>3, <2>1, <3>1
    <3> QED BY <1>0, <1>3, <2>1, <3>2, <3>3, ScreenNext
  <2>2. CASE Board!Step(c, "failed") /\ UNCHANGED <<shown, unsure>>
    <3>1. \A v : Due(v) => Due(v)'
      BY <1>1, <2>2
    <3>2. page \notin Board!LeaveBehind =>
              \A v \in Board!Views \ unsure' : shown'[v] \in {"behind", "readingOld"} => Due(v)'
      BY <2>2, <3>1
    <3> QED BY <1>0, <2>2, <3>2, ScreenNext
  <2>3. CASE /\ Board!Step(c, "failed") /\ shown' = Board!Altered(c.act.alters)
             /\ unsure' = Board!Outdated(unsure \cup c.act.alters, shown')
    <3>1. \A v : Due(v) => Due(v)'
      BY <1>1, <2>3
    <3>2. unsure' \subseteq Board!Views /\ \A v \in unsure' : shown'[v] \in {"behind", "readingOld"}
      BY <1>3, <2>3 DEF Board!Outdated
    <3>3. \A v \in Board!Views \ unsure' : shown'[v] \in {"behind", "readingOld"} =>
              v \notin unsure /\ v \notin c.act.alters /\ Old(v)
      BY <1>3, <2>3 DEF Board!Outdated
    <3>4. page \notin Board!LeaveBehind =>
              \A v \in Board!Views \ unsure' : shown'[v] \in {"behind", "readingOld"} => Due(v)'
      BY <3>1, <3>3
    <3> QED BY <1>0, <1>3, <2>3, <3>2, <3>4, ScreenNext
  <2> QED BY <2>1, <2>2, <2>3 DEF Board!Broker
<1> QED BY <1>0, <1>2, <1>4 DEF BoardInv, Asking

(* Dialogs that close and buttons that come on leave one question or dialog. *)
LEMMA AskingKeeps ==
    ASSUME BoardInv, UNCHANGED <<page, question>>, dialog' \subseteq dialog, saving' \subseteq saving
    PROVE  Asking'
BY DEF BoardInv, Asking

LEMMA ReplyKeeps == ASSUME BoardInv, NEW c \in Board!UnderWay, Board!Reply(c) PROVE BoardInv'
<1> USE ScreenTypes DEF Old
<1>0. UNCHANGED <<page, question>>
  BY DEF Board!Reply
<1>1. CASE c.stage = "failed" /\ Board!Refused(c)
  <2>1. Board!Over(c) /\ saving' = saving \ {c.act} /\ UNCHANGED <<dialog, shown, unsure>>
    BY <1>1 DEF Board!Refused
  <2>2. Requesting' /\ Board!UnderWay \ {c} \subseteq Board!UnderWay'
    BY <1>0, <2>1, EndKeeps DEF BoardInv
  <2>3. \A v : Due(v) => Due(v)'
    BY <1>1, <2>2 DEF Due
  <2>4. page \notin Board!LeaveBehind =>
            \A v \in Board!Views \ unsure' : shown'[v] \in {"behind", "readingOld"} => Due(v)'
    BY <2>1, <2>3
  <2>5. Screen'
    BY <1>0, <2>1, <2>4, ScreenNext
  <2> QED BY <1>0, <2>1, <2>2, <2>5, AskingKeeps DEF BoardInv
<1>2. CASE c.stage = "made" /\ Board!Made(c)
  <2> DEFINE now == IF c.act.closes /\ ~c.act.form THEN Board!WithoutPanel ELSE shown
             gone == IF c.act.closes THEN (IF c.act.form THEN {c.act} ELSE Board!InThePanel) ELSE {}
  <2>0. c \in Board!Requests
    BY DEF BoardInv, Requesting
  <2>1. /\ shown' = Board!Reading(c.act.rereads, now)
        /\ unsure' = Board!Outdated(unsure \ c.act.rereads, shown')
        /\ \/ /\ c.act.dialog.awaits /\ Board!Step(c, "reading")
              /\ Board!CloseDialog(gone) /\ saving' = saving \ (gone \cap Board!InThePanel)
           \/ /\ ~c.act.dialog.awaits /\ Board!Over(c)
              /\ Board!CloseDialog(Board!Left(c.act)) /\ saving' = saving \ {c.act}
    BY <1>2 DEF Board!Made
  <2> HIDE DEF gone
  <2>2. dialog' \subseteq dialog /\ saving' \subseteq saving
    BY <2>1 DEF Board!CloseDialog
  <2>3. /\ now \in [Board!Views -> Marks]
        /\ \A v \in Board!Views : now[v] = shown[v] \/ now[v] = "closed"
        /\ c.act.closes /\ ~c.act.form => \A v \in Board!Views \cap Board!Panel : now[v] = "closed"
    BY DEF Board!WithoutPanel, Marks
  <2> HIDE DEF now
  <2>4. /\ shown' \in [Board!Views -> Marks]
        /\ \A v \in Board!Views : shown'[v] = IF v \in c.act.rereads /\ now[v] # "closed" THEN "reading" ELSE now[v]
    BY <2>1, <2>3, ReadingOver
  <2>5. \A v \in Board!Views : shown'[v] \in {"behind", "readingOld"} =>
            /\ Old(v) /\ v \notin c.act.rereads
            /\ ~(c.act.closes /\ ~c.act.form /\ v \in Board!Panel)
    BY <2>3, <2>4
  <2>6. unsure' \subseteq Board!Views /\ \A v \in unsure' : shown'[v] \in {"behind", "readingOld"}
    BY <2>1 DEF Board!Outdated
  <2>7. \A v \in Board!Views \ unsure' : shown'[v] \in {"behind", "readingOld"} => v \notin unsure
    BY <2>1, <2>4, <2>5 DEF Board!Outdated
  <2>8. page \notin Board!LeaveBehind => ReadsAgain(c.act)
    BY <2>0, EveryPage DEF ReadsAll, BoardInv, Board!Requests
  <2>9. CASE c.act.dialog.awaits
    <3>1. Board!Step(c, "reading") /\ saving' = saving \ (gone \cap Board!InThePanel)
      BY <2>1, <2>9
    <3>2. \A a \in saving : Held(a) => a \in saving'
      BY <3>1 DEF Board!InThePanel, Held
    <3>3. /\ Requesting'
          /\ \E d \in Board!UnderWay' :
                /\ d.act = c.act /\ d.stage = "reading"
                /\ Board!UnderWay' \subseteq Board!UnderWay \cup {d}
                /\ Board!UnderWay \ {c} \subseteq Board!UnderWay'
      BY <1>0, <1>2, <2>2, <3>1, <3>2, StepKeeps DEF BoardInv
    <3>4. \A v : Due(v) => Due(v)' \/ v \in c.act.alters
      BY <1>2, <3>3 DEF Due
    <3>5. \A v \in c.act.later : Due(v)'
      BY <3>3 DEF Due
    <3>6. page \notin Board!LeaveBehind =>
              \A v \in Board!Views \ unsure' : shown'[v] \in {"behind", "readingOld"} => Due(v)'
      BY <2>5, <2>7, <2>8, <3>4, <3>5 DEF ReadsAgain
    <3>7. Screen'
      BY <1>0, <2>4, <2>6, <3>6, ScreenNext
    <3> QED BY <1>0, <2>2, <3>3, <3>7, AskingKeeps DEF BoardInv
  <2>10. CASE ~c.act.dialog.awaits
    <3>1. Board!Over(c) /\ saving' = saving \ {c.act}
      BY <2>1, <2>10
    <3>2. Requesting' /\ Board!UnderWay \ {c} \subseteq Board!UnderWay'
      BY <1>0, <3>1, EndKeeps DEF BoardInv
    <3>3. \A v : Due(v) => Due(v)' \/ v \in c.act.alters
      BY <1>2, <3>2 DEF Due
    <3>4. page \notin Board!LeaveBehind =>
              \A v \in Board!Views \ unsure' : shown'[v] \in {"behind", "readingOld"} => Due(v)'
      BY <2>5, <2>7, <2>8, <2>10, <3>3 DEF ReadsAgain
    <3>5. Screen'
      BY <1>0, <2>4, <2>6, <3>4, ScreenNext
    <3> QED BY <1>0, <2>2, <3>2, <3>5, AskingKeeps DEF BoardInv
  <2> QED BY <2>9, <2>10
<1> QED BY <1>1, <1>2 DEF Board!Reply

LEMMA ReturnKeeps == ASSUME BoardInv, NEW c \in Board!UnderWay, Board!Return(c) PROVE BoardInv'
<1> USE ScreenTypes DEF Old
<1>1. /\ c.stage = "reading" /\ Board!Over(c) /\ UNCHANGED <<page, question>>
      /\ shown' = Board!Reading(c.act.later, shown) /\ unsure' = unsure \ c.act.later
      /\ saving' = saving \ {c.act} /\ dialog' \subseteq dialog
  BY DEF Board!Return, Board!CloseDialog
<1>2. Requesting' /\ Board!UnderWay \ {c} \subseteq Board!UnderWay'
  BY <1>1, EndKeeps DEF BoardInv
<1>3. /\ shown' \in [Board!Views -> Marks]
      /\ \A v \in Board!Views : shown'[v] = IF v \in c.act.later /\ shown[v] # "closed" THEN "reading" ELSE shown[v]
  BY <1>1, ReadingOver
<1>4. \A v \in Board!Views \ unsure' : shown'[v] \in {"behind", "readingOld"} =>
          v \notin unsure /\ Old(v) /\ v \notin c.act.later
  BY <1>1, <1>3
<1>5. \A v : Due(v) => Due(v)' \/ v \in c.act.later
  BY <1>1, <1>2 DEF Due
<1>6. page \notin Board!LeaveBehind =>
          \A v \in Board!Views \ unsure' : shown'[v] \in {"behind", "readingOld"} => Due(v)'
  BY <1>4, <1>5
<1>7. unsure' \subseteq Board!Views /\ \A v \in unsure' : shown'[v] \in {"behind", "readingOld"}
  BY <1>1, <1>3
<1>8. Screen'
  BY <1>1, <1>3, <1>6, <1>7, ScreenNext
<1> QED BY <1>1, <1>2, <1>8, AskingKeeps DEF BoardInv

LEMMA BoardStep == ASSUME BoardInv, Board!Next \/ UNCHANGED boardVars PROVE BoardInv'
<1>1. CASE UNCHANGED boardVars
  <2>1. UNCHANGED <<page, question, dialog, saving, calls, shown, unsure>>
    BY <1>1 DEF boardVars
  <2>2. Requesting' /\ Board!UnderWay' = Board!UnderWay
    BY <2>1, ReleaseKeeps DEF BoardInv
  <2>3. Screen'
    BY <2>1, <2>2, ScreenRests
  <2> QED BY <2>1, <2>2, <2>3 DEF BoardInv, Asking
<1>2. CASE Board!Next
  BY <1>2, ReadsKeep, PanelKeeps, ButtonsKeep, ClosingKeeps, BrokerKeeps, ReplyKeeps, ReturnKeeps
     DEF Board!Next
<1> QED BY <1>1, <1>2

--------------------------------------------------------------------------------
(* The pages that browse messages. *)

(* What the proofs use of the pages: one that drops its rows with the source keeps a
   generation and acts on no row, and so does, but for More, one that is kept in order
   by its button alone. *)
LEMMA ReaderFacts ==
    ASSUME NEW r \in Browser!Readers
    PROVE  /\ r.clears => r.newest /\ r.row = "none"
           /\ r.guarded /\ ~r.picks /\ ~r.newest => ~r.clears /\ r.row \in {"none", "more", "resend"}
<1> USE DEF Browser!Reader
<1>1. CASE r \in {Browser!MessagesGooglePubSub, Browser!MessagesIbmMq, Browser!MessagesKinesis,
                  Browser!MessagesNats, Browser!MessagesRabbitMQ, Browser!MessagesSolace,
                  Browser!MessagesSqs}
  BY <1>1 DEF Browser!MessagesGooglePubSub, Browser!MessagesIbmMq, Browser!MessagesKinesis,
              Browser!MessagesNats, Browser!MessagesRabbitMQ, Browser!MessagesSolace,
              Browser!MessagesSqs
<1>2. CASE r \in {Browser!MessagesAzureServiceBus, Browser!MessagesKafka, Browser!MessagesRocketMQ}
  BY <1>2 DEF Browser!MessagesAzureServiceBus, Browser!MessagesKafka, Browser!MessagesRocketMQ
<1>3. CASE r \in {Browser!MessagesRedis, Browser!MessagesPulsar, Browser!MessagesActiveMQ}
  BY <1>3 DEF Browser!MessagesRedis, Browser!MessagesPulsar, Browser!MessagesActiveMQ
<1>4. CASE r \in {Browser!DlqAzureServiceBus, Browser!DlqRocketMQ, Browser!ShardsKinesis}
  BY <1>4 DEF Browser!DlqAzureServiceBus, Browser!DlqRocketMQ, Browser!ShardsKinesis
<1> QED BY <1>1, <1>2, <1>3, <1>4 DEF Browser!Readers

(* The read asked for last, if it is under way. *)
Newest == {r \in reads : r.no = asked}

(* A generation: the newest read, once there is none under way, is on screen, and on a
   page that drops its rows with the source it is of the source picked. *)
Generation ==
    reader.newest =>
        /\ rows.no \in {0, asked} \/ Newest # {}
        /\ running => Newest # {}
        /\ reader.clears => /\ \A r \in Newest : r.src = picked
                            /\ rows.no # 0 => rows.src = picked

(* A button that is off while it reads: one read at a time. *)
OneByOne ==
    reader.guarded /\ ~reader.picks /\ ~reader.newest =>
        /\ ~running => reads = {}
        /\ \A r, s \in reads : r = s
        /\ \A r \in reads : r.no = asked
        /\ reads = {} => rows.no \in {0, asked}

BrowseInv ==
    /\ Browser!TypeOK /\ Browser!RunningHasRead
    /\ \A r \in reads : r.no <= asked
    /\ act.stage = "made" => reader.row \in {"delete", "resend", "putBack"}
    /\ act.stage = "sent" => reader.row \in {"delete", "resend", "putBack"}
    /\ act.stage = "asked" => reader.row \in {"delete", "resend", "putBack"}
    /\ Generation /\ OneByOne

(* It says what the run checks. *)
LEMMA BrowseInvImplies ==
    BrowseInv => /\ Browser!TypeOK /\ Browser!RunningHasRead
                 /\ Browser!ShowsLastRead /\ Browser!RowsArePicked
<1> SUFFICES ASSUME BrowseInv
             PROVE  Browser!ShowsLastRead /\ Browser!RowsArePicked
  BY DEF BrowseInv
<1>1. reader \in Browser!Readers
  BY DEF BrowseInv, Browser!TypeOK
<1>2. Browser!ShowsLastRead
  BY DEF BrowseInv, Generation, OneByOne, Newest, Browser!ShowsLastRead, Browser!InOrder
<1>3. Browser!RowsArePicked
  BY <1>1, ReaderFacts DEF BrowseInv, Generation, Browser!RowsArePicked
<1> QED BY <1>2, <1>3

LEMMA BrowseInitInv == Browser!Init => BrowseInv
<1> SUFFICES ASSUME Browser!Init PROVE BrowseInv
  OBVIOUS
<1>1. (CHOOSE s \in Sources : TRUE) \in Sources
  BY DEF Browser!Init
<1>2. Browser!TypeOK
  <2>1. rows \in [no : 0..MaxReads, src : Sources, ids : SUBSET Ids] /\ asked \in 0..MaxReads
    BY <1>1, BrowseAssumption DEF Browser!Init, Browser!NoRows
  <2>2. act \in Browser!ActRecord \cup {Browser!NoAct} /\ running \in BOOLEAN
        /\ reads \subseteq Browser!ReadRecord /\ held \subseteq Sources \X Ids
    BY DEF Browser!Init
  <2> QED BY <2>1, <2>2 DEF Browser!Init, Browser!TypeOK
<1> QED BY <1>2 DEF Browser!Init, BrowseInv, Browser!RunningHasRead, Generation, OneByOne, Newest,
           Browser!NoRows, Browser!NoAct

(* A read is asked for. *)
LEMMA Reading ==
    ASSUME BrowseInv, NEW src_ \in Sources, NEW from_ \in Nat, Browser!Read(src_, from_)
    PROVE  LET new == [no |-> asked + 1, src |-> src_, from |-> from_, stage |-> "sent", ids |-> {}] IN
           /\ new \in Browser!ReadRecord /\ new.no = asked' /\ new.src = src_
           /\ asked \in Nat /\ asked' \in 0..MaxReads /\ asked' = asked + 1 /\ running' = TRUE
           /\ reads' = reads \cup {new} /\ reads' \subseteq Browser!ReadRecord
           /\ \A r \in reads' : r.no <= asked'
           /\ \A r \in reads : r.no # asked'
<1> DEFINE new == [no |-> asked + 1, src |-> src_, from |-> from_, stage |-> "sent", ids |-> {}]
<1>1. asked \in 0..MaxReads /\ asked < MaxReads /\ asked' = asked + 1 /\ running' = TRUE
      /\ reads' = reads \cup {new}
  BY DEF Browser!Read, BrowseInv, Browser!TypeOK
<1>2. asked + 1 \in 1..MaxReads /\ asked' \in 0..MaxReads /\ asked \in Nat
  BY <1>1, BrowseAssumption
<1>3. new \in Browser!ReadRecord /\ new.no = asked' /\ new.src = src_
  BY <1>1, <1>2 DEF Browser!ReadRecord
<1> HIDE DEF new
<1>4. \A r \in reads : r.no \in Nat /\ r.no <= asked
  BY DEF BrowseInv, Browser!TypeOK, Browser!ReadRecord
<1>5. \A r \in reads : r.no <= asked' /\ r.no # asked'
  BY <1>1, <1>2, <1>4
<1>6. reads' \subseteq Browser!ReadRecord
  BY <1>1, <1>3 DEF BrowseInv, Browser!TypeOK
<1>7. \A r \in reads' : r.no <= asked'
  BY <1>1, <1>2, <1>3, <1>5
<1> QED BY <1>1, <1>2, <1>3, <1>5, <1>6, <1>7 DEF new

(* A read of the source picked keeps what is promised, on a page that keeps one by its
   button only if it is on. *)
LEMMA ReadingKeeps ==
    ASSUME BrowseInv, NEW src_ \in Sources, NEW from_ \in Nat, Browser!Read(src_, from_),
           reader.guarded /\ ~reader.picks /\ ~reader.newest => ~running,
           reader.clears => src_ = picked', picked' \in Sources,
           UNCHANGED <<reader, held>>,
           act' = act \/ (act' \in Browser!ActRecord /\ act'.stage = "told"),
           rows' = rows \/ rows' = Browser!NoRows,
           reader.clears => picked' = picked \/ rows' = Browser!NoRows
    PROVE  BrowseInv'
<1> DEFINE new == [no |-> asked + 1, src |-> src_, from |-> from_, stage |-> "sent", ids |-> {}]
<1>1. /\ new \in Browser!ReadRecord /\ new.no = asked' /\ new.src = src_
      /\ asked \in Nat /\ asked' \in 0..MaxReads /\ asked' = asked + 1 /\ running' = TRUE
      /\ reads' = reads \cup {new} /\ reads' \subseteq Browser!ReadRecord
      /\ \A r \in reads' : r.no <= asked'
      /\ \A r \in reads : r.no # asked'
  BY Reading
<1> HIDE DEF new
<1>2. Browser!NoRows \in [no : 0..MaxReads, src : Sources, ids : SUBSET Ids] /\ Browser!NoRows.no = 0
  <2>1. (CHOOSE s \in Sources : TRUE) \in Sources
    OBVIOUS
  <2> QED BY <2>1, BrowseAssumption DEF Browser!NoRows
<1>3. Browser!TypeOK'
  BY <1>1, <1>2 DEF BrowseInv, Browser!TypeOK
<1>4. Newest' = {new}
  BY <1>1 DEF Newest
<1>5. Generation'
  BY <1>1, <1>2, <1>4 DEF BrowseInv, Generation
<1>6. OneByOne'
  BY <1>1 DEF BrowseInv, OneByOne
<1> QED BY <1>1, <1>3, <1>5, <1>6 DEF BrowseInv, Browser!RunningHasRead

LEMMA PickKeeps == ASSUME BrowseInv, NEW src_ \in Sources, Browser!Pick(src_) PROVE BrowseInv'
<1>0. /\ picked' = src_ /\ UNCHANGED <<reader, act, held>>
      /\ rows' = IF reader.clears THEN Browser!NoRows ELSE rows
  BY DEF Browser!Pick
<1>a. reader \in Browser!Readers
  BY DEF BrowseInv, Browser!TypeOK
<1>1. CASE reader.picks
  <2>1. Browser!Read(src_, 0)
    BY <1>1 DEF Browser!Pick
  <2> QED BY <1>0, <1>1, <2>1, ReadingKeeps
<1>2. CASE ~reader.picks /\ reader.clears
  <2>1. asked' = asked + 1 /\ running' = FALSE /\ UNCHANGED reads /\ asked < MaxReads
    BY <1>2 DEF Browser!Pick
  <2>2. asked' \in 0..MaxReads /\ \A r \in reads : r.no <= asked' /\ r.no # asked'
    <3>1. asked \in 0..MaxReads /\ \A r \in reads : r.no \in Nat /\ r.no <= asked
      BY DEF BrowseInv, Browser!TypeOK, Browser!ReadRecord
    <3> QED BY <2>1, <3>1, BrowseAssumption
  <2>3. Browser!NoRows \in [no : 0..MaxReads, src : Sources, ids : SUBSET Ids] /\ Browser!NoRows.no = 0
    <3>1. (CHOOSE s \in Sources : TRUE) \in Sources
      OBVIOUS
    <3> QED BY <3>1, BrowseAssumption DEF Browser!NoRows
  <2>4. reader.newest
    BY <1>2, <1>a, ReaderFacts
  <2>5. Browser!TypeOK'
    BY <1>0, <1>2, <2>1, <2>2, <2>3 DEF BrowseInv, Browser!TypeOK
  <2>6. Generation' /\ OneByOne'
    BY <1>0, <1>2, <2>1, <2>2, <2>3, <2>4 DEF Generation, OneByOne, Newest
  <2> QED BY <1>0, <2>1, <2>2, <2>5, <2>6 DEF BrowseInv, Browser!RunningHasRead
<1>3. CASE ~reader.picks /\ ~reader.clears
  <2>1. UNCHANGED <<asked, running, reads, rows>>
    BY <1>0, <1>3 DEF Browser!Pick
  <2>2. Generation' /\ OneByOne' /\ Browser!TypeOK'
    BY <1>0, <1>3, <2>1 DEF BrowseInv, Generation, OneByOne, Newest, Browser!TypeOK
  <2> QED BY <1>0, <2>1, <2>2 DEF BrowseInv, Browser!RunningHasRead
<1> QED BY <1>1, <1>2, <1>3

LEMMA RunKeeps == ASSUME BrowseInv, Browser!Run \/ Browser!More PROVE BrowseInv'
<1>0. picked \in Sources /\ reader \in Browser!Readers /\ rows.ids \subseteq Ids
  BY DEF BrowseInv, Browser!TypeOK
<1>1. CASE Browser!Run
  <2>1. /\ reader.guarded => ~running
        /\ Browser!Read(picked, 0) /\ UNCHANGED <<reader, picked, act, held>>
        /\ rows' = rows \/ rows' = Browser!NoRows
    BY <1>1 DEF Browser!Run
  <2> QED BY <1>0, <2>1, ReadingKeeps
<1>2. CASE Browser!More
  <2>1. PICK from_ \in Nat : Browser!Read(picked, from_)
    <3>1. PICK last \in rows.ids : Browser!Read(picked, last + 1)
      BY <1>2 DEF Browser!More
    <3>2. last \in Nat
      BY <1>0, BrowseAssumption
    <3> QED BY <3>1, <3>2
  <2>2. ~running /\ UNCHANGED <<reader, picked, rows, act, held>>
    BY <1>2 DEF Browser!More
  <2> QED BY <1>0, <2>1, <2>2, ReadingKeeps
<1> QED BY <1>1, <1>2

LEMMA BrokerReadsKeep == ASSUME BrowseInv, NEW r \in reads, Browser!BrokerReads(r) PROVE BrowseInv'
<1>1. r \in Browser!ReadRecord /\ UNCHANGED <<reader, picked, rows, running, asked, act, held>>
  BY DEF Browser!BrokerReads, BrowseInv, Browser!TypeOK
<1>2. PICK s \in Browser!ReadRecord : /\ s.no = r.no /\ s.src = r.src
                                      /\ reads' = (reads \ {r}) \cup {s}
  <2>1. PICK ids_ \in SUBSET Ids :
           \/ reads' = (reads \ {r}) \cup {[r EXCEPT !.stage = "read", !.ids = ids_]}
           \/ reads' = (reads \ {r}) \cup {[r EXCEPT !.stage = "failed"]}
    BY DEF Browser!BrokerReads
  <2>2. /\ [r EXCEPT !.stage = "read", !.ids = ids_] \in Browser!ReadRecord
        /\ [r EXCEPT !.stage = "failed"] \in Browser!ReadRecord
        /\ [r EXCEPT !.stage = "read", !.ids = ids_].no = r.no
        /\ [r EXCEPT !.stage = "read", !.ids = ids_].src = r.src
        /\ [r EXCEPT !.stage = "failed"].no = r.no /\ [r EXCEPT !.stage = "failed"].src = r.src
    BY <1>1 DEF Browser!ReadRecord
  <2> QED BY <2>1, <2>2
<1>3. Newest # {} => Newest' # {}
  BY <1>1, <1>2 DEF Newest
<1>4. (\A t \in Newest : t.src = picked) => \A t \in Newest' : t.src = picked
  BY <1>1, <1>2 DEF Newest
<1>5. Generation'
  BY <1>1, <1>3, <1>4 DEF BrowseInv, Generation
<1>6. OneByOne'
  BY <1>1, <1>2 DEF BrowseInv, OneByOne
<1>7. Browser!TypeOK' /\ Browser!RunningHasRead' /\ \A t \in reads' : t.no <= asked'
  BY <1>1, <1>2 DEF BrowseInv, Browser!TypeOK, Browser!RunningHasRead
<1> QED BY <1>1, <1>5, <1>6, <1>7 DEF BrowseInv

(* An answer that lands: of the newest read, of the only one, or of one nobody waits for. *)
LEMMA LandedKeeps == ASSUME BrowseInv, NEW r \in reads, Browser!Landed(r) PROVE BrowseInv'
<1>1. reads' = reads \ {r} /\ UNCHANGED <<reader, picked, asked, act, held>>
  BY DEF Browser!Landed
<1>2. r \in Browser!ReadRecord
  BY DEF BrowseInv, Browser!TypeOK
<1>3. CASE reader.newest /\ r.no # asked
  <2>1. UNCHANGED <<rows, running>>
    BY <1>3 DEF Browser!Landed
  <2>2. Newest' = Newest
    BY <1>1, <1>3 DEF Newest
  <2>3. Generation' /\ OneByOne'
    BY <1>1, <1>3, <2>1, <2>2 DEF BrowseInv, Generation, OneByOne
  <2>4. Browser!RunningHasRead'
    BY <1>1, <1>3, <2>1, <2>2 DEF BrowseInv, Generation, Newest, Browser!RunningHasRead
  <2> QED BY <1>1, <2>1, <2>3, <2>4 DEF BrowseInv, Browser!TypeOK
<1>4. CASE ~reader.newest \/ r.no = asked
  <2>1. /\ rows' = IF r.stage = "read" THEN [no |-> r.no, src |-> r.src, ids |-> r.ids] ELSE Browser!NoRows
        /\ running' = FALSE
    BY <1>4 DEF Browser!Landed
  <2>2. /\ rows' \in [no : 0..MaxReads, src : Sources, ids : SUBSET Ids]
        /\ rows'.no \in {0, r.no} /\ (rows'.no # 0 => rows'.src = r.src)
    <3>1. (CHOOSE s \in Sources : TRUE) \in Sources
      BY <1>2 DEF Browser!ReadRecord
    <3> QED BY <1>2, <2>1, <3>1, BrowseAssumption DEF Browser!ReadRecord, Browser!NoRows
  <2>3. Browser!TypeOK' /\ Browser!RunningHasRead' /\ \A t \in reads' : t.no <= asked'
    BY <1>1, <2>1, <2>2 DEF BrowseInv, Browser!TypeOK, Browser!RunningHasRead
  <2>4. Generation'
    BY <1>1, <1>4, <2>1, <2>2 DEF BrowseInv, Generation, Newest
  <2>5. OneByOne'
    BY <1>1, <2>1, <2>2 DEF BrowseInv, OneByOne
  <2> QED BY <1>1, <2>3, <2>4, <2>5 DEF BrowseInv
<1> QED BY <1>3, <1>4

(* A row's button. *)
LEMMA ActsKeep ==
    ASSUME BrowseInv,
           \/ \E id \in Ids : Browser!PressRow(id)
           \/ Browser!Confirm \/ Browser!Leave \/ Browser!BrokerActs \/ Browser!Told
           \/ Browser!Refused \/ \E src \in Sources, id \in Ids : Browser!Taken(src, id)
    PROVE  BrowseInv'
<1>0. act \in Browser!ActRecord \cup {Browser!NoAct} /\ picked \in Sources
      /\ reader \in Browser!Readers /\ held \subseteq Sources \X Ids
  BY DEF BrowseInv, Browser!TypeOK
<1>r. ASSUME UNCHANGED <<reader, picked, rows, running, asked, reads>>,
             act' \in Browser!ActRecord \cup {Browser!NoAct}, held' \subseteq held,
             act'.stage \in {"made", "sent", "asked"} => reader.row \in {"delete", "resend", "putBack"}
      PROVE  BrowseInv'
  <2>1. Generation' /\ OneByOne' /\ Browser!RunningHasRead'
    BY <1>r DEF BrowseInv, Generation, OneByOne, Newest, Browser!RunningHasRead
  <2>2. Browser!TypeOK'
    BY <1>r DEF BrowseInv, Browser!TypeOK
  <2> QED BY <1>r, <2>1, <2>2 DEF BrowseInv
<1>n. Browser!NoAct.stage = "none"
  BY DEF Browser!NoAct
<1>1. CASE \E id \in Ids : Browser!PressRow(id)
  <2>1. PICK id \in Ids : Browser!PressRow(id)
    BY <1>1
  <2>2. act' \in Browser!ActRecord
    BY <1>0, <2>1 DEF Browser!PressRow, Browser!ActRecord
  <2> QED BY <1>r, <2>1, <2>2 DEF Browser!PressRow
<1>2. CASE Browser!Confirm
  <2>1. act \in Browser!ActRecord
    BY <1>0, <1>2, <1>n DEF Browser!Confirm
  <2>2. act' \in Browser!ActRecord
    BY <1>2, <2>1 DEF Browser!Confirm, Browser!ActRecord
  <2> QED BY <1>2, <1>r, <2>2 DEF Browser!Confirm, BrowseInv
<1>3. CASE Browser!Leave \/ Browser!Refused
  BY <1>3, <1>n, <1>r DEF Browser!Leave, Browser!Refused
<1>4. CASE Browser!BrokerActs
  <2>1. act \in Browser!ActRecord
    BY <1>0, <1>4, <1>n DEF Browser!BrokerActs
  <2>2. act' \in Browser!ActRecord /\ held' \subseteq held
    BY <1>4, <2>1 DEF Browser!BrokerActs, Browser!ActRecord
  <2> QED BY <1>4, <1>r, <2>2 DEF Browser!BrokerActs, BrowseInv
<1>5. CASE Browser!Told
  <2>1. act \in Browser!ActRecord
    BY <1>0, <1>5, <1>n DEF Browser!Told
  <2>2. act' \in Browser!ActRecord /\ act'.stage = "told" /\ act.target \in Sources
        /\ UNCHANGED <<reader, picked, rows, held>>
    BY <1>5, <2>1 DEF Browser!Told, Browser!ActRecord
  <2>3. CASE reader.row = "resend"
    BY <1>5, <1>r, <2>2, <2>3 DEF Browser!Told
  <2>4. CASE reader.row # "resend"
    <3>1. Browser!Read(act.target, 0) /\ reader.row \in {"delete", "putBack"}
      BY <1>5, <2>4 DEF Browser!Told, BrowseInv
    <3>2. ~reader.clears /\ ~(reader.guarded /\ ~reader.picks /\ ~reader.newest)
      BY <1>0, <3>1, ReaderFacts
    <3> QED BY <1>0, <2>2, <3>1, <3>2, ReadingKeeps
  <2> QED BY <2>3, <2>4
<1>6. CASE \E src \in Sources, id \in Ids : Browser!Taken(src, id)
  <2>1. UNCHANGED <<reader, picked, rows, running, asked, reads, act>> /\ held' \subseteq held
    BY <1>6 DEF Browser!Taken
  <2> QED BY <1>0, <1>r, <2>1 DEF BrowseInv
<1> QED BY <1>1, <1>2, <1>3, <1>4, <1>5, <1>6

LEMMA BrowseStep == ASSUME BrowseInv, Browser!Next \/ UNCHANGED browseVars PROVE BrowseInv'
<1>1. CASE UNCHANGED browseVars
  BY <1>1 DEF browseVars, BrowseInv, Browser!TypeOK, Browser!RunningHasRead, Generation, OneByOne, Newest
<1>2. CASE Browser!Next
  BY <1>2, PickKeeps, RunKeeps, BrokerReadsKeep, LandedKeeps, ActsKeep DEF Browser!Next
<1> QED BY <1>1, <1>2

--------------------------------------------------------------------------------
(* The message tail. *)

(* An instance's operators on finite sets are the library's. *)
LEMMA SameCardinality == ASSUME NEW S PROVE MessageTail!Cardinality(S) = Cardinality(S)
BY Zenon DEF MessageTail!Cardinality, Cardinality

Shape == [cursor : Int, dropped : Int, first : Int, last : Int]
PollRecord ==
    [no : 1..MaxPolls, topic : Topics, after : -1..MaxMessages, stage : {"sent", "ok", "failed"},
     cancelled : BOOLEAN, batch : Shape]

(* What a poll brought: where the topic ended, or everything after its cursor with the
   loss counted. *)
IsBatch(p) ==
    IF p.after = -1
    THEN p.batch.cursor \in 0..length[p.topic] /\ p.batch.dropped = 0
         /\ p.batch.first = 1 /\ p.batch.last = 0
    ELSE p.batch.cursor = p.batch.last /\ p.batch.last \in p.after..length[p.topic]
         /\ p.batch.first \in (p.after + 1)..(p.batch.last + 1)
         /\ p.batch.dropped = p.batch.first - p.after - 1

(* A poll that has not been cancelled goes on from where the tail is; there is one. *)
Polling ==
    /\ polls \subseteq PollRecord
    /\ \A p, q \in polls : p = q
    /\ \A p \in polls :
          /\ p.after <= length[p.topic]
          /\ p.stage = "ok" => IsBatch(p)
          /\ ~p.cancelled => tailing /\ p.topic = topic /\ p.after = cursor

(* The rows and the loss account for what lies between where the tail opened and its
   cursor, and nothing shown lies past it. *)
Accounted ==
    /\ cursor = -1 => tailRows = <<>> /\ seen = {} /\ dropped = 0 /\ opened = -1
    /\ cursor # -1 => /\ opened \in 0..cursor /\ IsFiniteSet(seen)
                      /\ Cardinality(seen) + dropped = cursor - opened
    /\ cursor <= length[topic]
    /\ \A r \in seen : r[2] <= cursor
    /\ \A i \in 1..Len(tailRows) : tailRows[i][1] = topic /\ tailRows[i][2] <= cursor
    /\ \A i, j \in 1..Len(tailRows) : i < j => tailRows[i][2] > tailRows[j][2]

Types ==
    /\ topic \in Topics /\ online \in BOOLEAN /\ tailing \in BOOLEAN
    /\ cursor \in -1..MaxMessages /\ opened \in -1..MaxMessages /\ dropped \in Nat
    /\ tailRows \in Seq(MessageTail!Row) /\ Len(tailRows) <= Buffer
    /\ seen \subseteq MessageTail!Row
    /\ length \in [Topics -> 0..MaxMessages] /\ oldest \in [Topics -> 1..(MaxMessages + 1)]
    /\ \A t \in Topics : oldest[t] <= length[t] + 1

TailInv == Types /\ Polling /\ Accounted

(* It says what the run checks. *)
LEMMA TailInvImplies ==
    TailInv => MessageTail!TypeOK /\ MessageTail!TailIsWhole /\ MessageTail!TailInOrder
<1> SUFFICES ASSUME TailInv
             PROVE  MessageTail!TypeOK /\ MessageTail!TailIsWhole /\ MessageTail!TailInOrder
  OBVIOUS
<1>1. MessageTail!Cardinality(polls) <= MaxPolls
  <2>1. CASE polls = {}
    <3>1. Cardinality(polls) = 0
      BY <2>1, FS_EmptySet
    <3> QED BY <3>1, SameCardinality, TailAssumption
  <2>2. CASE polls # {}
    <3>1. PICK p \in polls : TRUE
      BY <2>2
    <3>2. polls = {p}
      BY <3>1 DEF TailInv, Polling
    <3>3. Cardinality(polls) = 1
      BY <3>2, FS_Singleton
    <3> QED BY <3>3, SameCardinality, TailAssumption
  <2> QED BY <2>1, <2>2
<1>2. \A p \in polls : p.no \in 1..MaxPolls /\ p.after \in -1..MaxMessages
  BY DEF TailInv, Polling, PollRecord
<1>3. MessageTail!TypeOK
  BY <1>1, <1>2 DEF TailInv, Types, MessageTail!TypeOK, MessageTail!None
<1>4. MessageTail!TailIsWhole
  BY SameCardinality DEF TailInv, Accounted, MessageTail!TailIsWhole, MessageTail!None
<1>5. MessageTail!TailInOrder
  BY DEF TailInv, Accounted, MessageTail!TailInOrder
<1> QED BY <1>3, <1>4, <1>5

LEMMA TailInitInv == MessageTail!Init => TailInv
<1> SUFFICES ASSUME MessageTail!Init PROVE TailInv
  OBVIOUS
<1> USE DEF MessageTail!Init, MessageTail!None
<1>1. /\ tailRows \in Seq(MessageTail!Row) /\ Len(tailRows) = 0
  OBVIOUS
<1>2. length \in [Topics -> 0..MaxMessages] /\ oldest \in [Topics -> 1..(MaxMessages + 1)]
      /\ \A t \in Topics : oldest[t] <= length[t] + 1
  BY TailAssumption
<1>3. Types
  <2>1. cursor \in -1..MaxMessages /\ opened \in -1..MaxMessages /\ dropped \in Nat
    BY TailAssumption
  <2>2. Len(tailRows) <= Buffer
    BY <1>1, TailAssumption
  <2>3. topic \in Topics /\ online \in BOOLEAN /\ tailing \in BOOLEAN /\ seen \subseteq MessageTail!Row
    OBVIOUS
  <2> QED BY <1>1, <1>2, <2>1, <2>2, <2>3 DEF Types
<1>4. Polling /\ Accounted
  BY <1>1, <1>2 DEF Polling, Accounted
<1> QED BY <1>3, <1>4 DEF TailInv

(* A tail that starts over has nothing to account for. *)
LEMMA ClearedKeeps ==
    ASSUME TailInv, MessageTail!Cleared, UNCHANGED <<length, oldest>>, topic' \in Topics
    PROVE  /\ Accounted' /\ cursor' \in -1..MaxMessages /\ opened' \in -1..MaxMessages /\ dropped' \in Nat
           /\ tailRows' \in Seq(MessageTail!Row) /\ Len(tailRows') <= Buffer
           /\ seen' \subseteq MessageTail!Row
<1> USE DEF MessageTail!Cleared, MessageTail!None
<1>1. length[topic'] \in Nat
  BY DEF TailInv, Types
<1>2. tailRows' \in Seq(MessageTail!Row) /\ Len(tailRows') = 0
  OBVIOUS
<1>3. Accounted'
  BY <1>1, <1>2 DEF Accounted
<1> QED BY <1>2, <1>3, TailAssumption

(* Polls that are cancelled keep what they brought. *)
LEMMA CancelledKeeps ==
    ASSUME TailInv, polls' = MessageTail!Cancelled, UNCHANGED <<length, oldest>>
    PROVE  Polling'
<1>1. \A p \in polls' : \E q \in polls : p = [q EXCEPT !.cancelled = TRUE]
  BY DEF MessageTail!Cancelled
<1>2. \A q \in polls : LET p == [q EXCEPT !.cancelled = TRUE] IN
          /\ p \in PollRecord /\ p.cancelled = TRUE /\ p.after = q.after /\ p.topic = q.topic
          /\ p.stage = q.stage /\ p.batch = q.batch
  BY DEF TailInv, Polling, PollRecord
<1>3. \A p, q \in polls' : p = q
  BY <1>1 DEF TailInv, Polling
<1>4. ASSUME NEW p \in polls'
      PROVE  /\ p \in PollRecord /\ p.cancelled = TRUE /\ p.after <= length'[p.topic]
             /\ p.stage = "ok" => IsBatch(p)'
  <2>1. PICK q \in polls : p = [q EXCEPT !.cancelled = TRUE]
    BY <1>1
  <2>2. /\ p \in PollRecord /\ p.cancelled = TRUE /\ p.after = q.after /\ p.topic = q.topic
        /\ p.stage = q.stage /\ p.batch = q.batch
    BY <1>2, <2>1
  <2>3. q.after <= length[q.topic] /\ (q.stage = "ok" => IsBatch(q))
    BY DEF TailInv, Polling
  <2> QED BY <2>2, <2>3 DEF IsBatch
<1> QED BY <1>3, <1>4 DEF Polling

(* The switch, the topic, the connection and the broker. *)
LEMMA SwitchKeeps ==
    ASSUME TailInv,
           \/ MessageTail!Start \/ MessageTail!Stop \/ MessageTail!GoOffline \/ MessageTail!ComeBack
           \/ \E t \in Topics : MessageTail!Pick(t)
    PROVE  TailInv'
<1> USE DEF TailInv, MessageTail!broker
<1>1. CASE MessageTail!Start
  <2>1. MessageTail!Cleared /\ UNCHANGED <<topic, online, polls, length, oldest>> /\ tailing' = TRUE /\ ~tailing
    BY <1>1 DEF MessageTail!Start
  <2>2. Polling'
    BY <2>1 DEF Polling, IsBatch
  <2> QED BY <2>1, <2>2, ClearedKeeps DEF Types
<1>2. CASE MessageTail!Stop \/ MessageTail!GoOffline
  <2>1. polls' = MessageTail!Cancelled /\ UNCHANGED <<topic, cursor, tailRows, dropped, seen, opened, length, oldest>>
        /\ tailing' \in BOOLEAN /\ online' \in BOOLEAN
    BY <1>2 DEF MessageTail!Stop, MessageTail!GoOffline, Types
  <2>2. Accounted'
    BY <2>1 DEF Accounted
  <2> QED BY <2>1, <2>2, CancelledKeeps DEF Types
<1>3. CASE MessageTail!ComeBack
  <2>1. UNCHANGED <<topic, tailing, cursor, tailRows, dropped, polls, seen, opened, length, oldest>>
        /\ online' \in BOOLEAN
    BY <1>3 DEF MessageTail!ComeBack
  <2> QED BY <2>1 DEF Types, Polling, Accounted, IsBatch
<1>4. CASE \E t \in Topics : MessageTail!Pick(t)
  <2>1. polls' = MessageTail!Cancelled /\ MessageTail!Cleared /\ UNCHANGED <<online, length, oldest>>
        /\ topic' \in Topics /\ tailing' = FALSE
    BY <1>4 DEF MessageTail!Pick
  <2> QED BY <2>1, ClearedKeeps, CancelledKeeps DEF Types
<1> QED BY <1>1, <1>2, <1>3, <1>4

LEMMA TopicsKeep ==
    ASSUME TailInv, NEW t \in Topics, MessageTail!Produce(t) \/ MessageTail!Retention(t)
    PROVE  TailInv'
<1> USE DEF TailInv
<1>1. UNCHANGED <<topic, online, tailing, cursor, tailRows, dropped, polls, seen, opened>>
  BY DEF MessageTail!Produce, MessageTail!Retention
<1>2. /\ length' \in [Topics -> 0..MaxMessages] /\ oldest' \in [Topics -> 1..(MaxMessages + 1)]
      /\ \A u \in Topics : oldest'[u] <= length'[u] + 1 /\ length[u] <= length'[u]
      /\ \A u \in Topics : length[u] \in Nat /\ length'[u] \in Nat
  <2>1. \A u \in Topics : /\ length[u] \in 0..MaxMessages /\ oldest[u] \in 1..(MaxMessages + 1)
                          /\ oldest[u] <= length[u] + 1
    BY DEF Types
  <2>2. CASE MessageTail!Produce(t)
    <3>1. /\ length' = [length EXCEPT ![t] = length[t] + 1] /\ oldest' = oldest /\ length[t] < MaxMessages
      BY <2>2 DEF MessageTail!Produce
    <3>2. length[t] + 1 \in 0..MaxMessages
      BY <2>1, <3>1, TailAssumption
    <3>3. \A u \in Topics : length'[u] = IF u = t THEN length[t] + 1 ELSE length[u]
      BY <3>1 DEF Types
    <3>4. length' \in [Topics -> 0..MaxMessages]
      BY <3>1, <3>2 DEF Types
    <3>5. \A u \in Topics : /\ oldest'[u] <= length'[u] + 1 /\ length[u] <= length'[u]
                            /\ length[u] \in Nat /\ length'[u] \in Nat
      BY <2>1, <3>1, <3>3, TailAssumption
    <3> QED BY <3>1, <3>4, <3>5 DEF Types
  <2>3. CASE MessageTail!Retention(t)
    <3>1. /\ oldest' = [oldest EXCEPT ![t] = oldest[t] + 1] /\ length' = length /\ oldest[t] <= length[t]
      BY <2>3 DEF MessageTail!Retention
    <3>2. oldest[t] + 1 \in 1..(MaxMessages + 1)
      BY <2>1, <3>1, TailAssumption
    <3>3. \A u \in Topics : oldest'[u] = IF u = t THEN oldest[t] + 1 ELSE oldest[u]
      BY <3>1 DEF Types
    <3>4. oldest' \in [Topics -> 1..(MaxMessages + 1)]
      BY <3>1, <3>2 DEF Types
    <3>5. \A u \in Topics : /\ oldest'[u] <= length'[u] + 1 /\ length[u] <= length'[u]
                            /\ length[u] \in Nat /\ length'[u] \in Nat
      BY <2>1, <3>1, <3>3, TailAssumption
    <3> QED BY <3>1, <3>4, <3>5 DEF Types
  <2> QED BY <2>2, <2>3
<1>3. ASSUME NEW p \in polls, p.stage = "ok" PROVE IsBatch(p)'
  <2>1. p.topic \in Topics /\ p.after \in Int /\ p.batch.cursor \in Int /\ p.batch.last \in Int
    BY DEF Polling, PollRecord, Shape
  <2>2. IsBatch(p)
    BY <1>3 DEF Polling
  <2> QED BY <1>1, <1>2, <2>1, <2>2 DEF IsBatch
<1>4. \A p \in polls : p.after <= length'[p.topic]
  <2>1. \A p \in polls : p.topic \in Topics /\ p.after \in Int /\ p.after <= length[p.topic]
    BY DEF Polling, PollRecord
  <2> QED BY <1>2, <2>1
<1>5. Polling'
  BY <1>1, <1>3, <1>4 DEF Polling
<1>6. cursor <= length'[topic]
  BY <1>2 DEF Types, Accounted
<1> QED BY <1>1, <1>2, <1>5, <1>6 DEF Types, Accounted

LEMMA TickKeeps == ASSUME TailInv, MessageTail!Tick PROVE TailInv'
<1>1. /\ polls = {} /\ tailing
      /\ UNCHANGED <<topic, online, tailing, cursor, tailRows, dropped, seen, opened, length, oldest>>
  BY DEF MessageTail!Tick, MessageTail!InFlight, MessageTail!broker
<1>2. PICK no_ \in 1..MaxPolls :
         polls' = polls \cup {[no |-> no_, topic |-> topic, after |-> cursor, stage |-> "sent",
                               cancelled |-> FALSE, batch |-> MessageTail!NoBatch]}
  BY DEF MessageTail!Tick
<1> DEFINE new == [no |-> no_, topic |-> topic, after |-> cursor, stage |-> "sent",
                   cancelled |-> FALSE, batch |-> MessageTail!NoBatch]
<1>3. new \in PollRecord /\ new.after = cursor /\ new.topic = topic /\ new.stage = "sent"
  BY DEF TailInv, Types, PollRecord, Shape, MessageTail!NoBatch, MessageTail!None
<1>4. polls' = {new}
  BY <1>1, <1>2
<1> HIDE DEF new
<1>5. Polling'
  BY <1>1, <1>3, <1>4 DEF Polling, TailInv, Accounted
<1> QED BY <1>1, <1>5 DEF TailInv, Types, Accounted

(* The driver answers with everything after the poll's cursor, and the loss. *)
LEMMA AnswerKeepsTail == ASSUME TailInv, NEW p \in polls, MessageTail!Answer(p) PROVE TailInv'
<1>1. UNCHANGED <<topic, online, tailing, cursor, tailRows, dropped, seen, opened, length, oldest>>
  BY DEF MessageTail!Answer, MessageTail!broker
<1>2. p \in PollRecord /\ polls \ {p} = {} /\ p.after <= length[p.topic]
      /\ (~p.cancelled => tailing /\ p.topic = topic /\ p.after = cursor)
  BY DEF TailInv, Polling
<1> DEFINE b == MessageTail!Batch(p.topic, p.after)
<1>3. /\ length[p.topic] \in 0..MaxMessages /\ oldest[p.topic] \in 1..(MaxMessages + 1)
      /\ oldest[p.topic] <= length[p.topic] + 1 /\ p.after \in -1..MaxMessages
  BY <1>2 DEF TailInv, Types, PollRecord
<1>4. b \in Shape /\ \/ /\ p.after = -1 /\ b.cursor = length[p.topic] /\ b.dropped = 0
                        /\ b.first = 1 /\ b.last = 0
                     \/ /\ p.after # -1 /\ b.cursor = b.last /\ b.last = length[p.topic]
                        /\ b.first \in (p.after + 1)..(b.last + 1) /\ b.dropped = b.first - p.after - 1
  <2>1. CASE p.after = -1
    BY <1>3, <2>1, TailAssumption DEF MessageTail!Batch, MessageTail!None, MessageTail!NoBatch, Shape
  <2>2. CASE p.after # -1
    <3> DEFINE first == MessageTail!Greater(p.after + 1, oldest[p.topic])
    <3>1. b = [cursor |-> MessageTail!Greater(p.after, length[p.topic]),
               dropped |-> MessageTail!Greater(first - p.after - 1, 0),
               first |-> first, last |-> length[p.topic]]
      BY <2>2 DEF MessageTail!Batch, MessageTail!None
    <3>2. first \in (p.after + 1)..(length[p.topic] + 1) /\ first \in Int
      BY <1>2, <1>3, TailAssumption DEF MessageTail!Greater
    <3>3. MessageTail!Greater(p.after, length[p.topic]) = length[p.topic]
      BY <1>2, <1>3, TailAssumption DEF MessageTail!Greater
    <3> HIDE DEF first
    <3>4. MessageTail!Greater(first - p.after - 1, 0) = first - p.after - 1
      BY <1>3, <3>2, TailAssumption DEF MessageTail!Greater
    <3> HIDE DEF b
    <3> QED BY <1>3, <2>2, <3>1, <3>2, <3>3, <3>4, TailAssumption DEF Shape
  <2> QED BY <2>1, <2>2
<1> HIDE DEF b
<1>5. PICK q \in PollRecord : /\ polls' = {q} /\ q.topic = p.topic /\ q.after = p.after
                              /\ q.cancelled = p.cancelled
                              /\ q.stage = "ok" => q.batch = b
  <2>1. CASE polls' = (polls \ {p}) \cup {[p EXCEPT !.stage = "ok", !.batch = b]}
    <3> DEFINE q == [p EXCEPT !.stage = "ok", !.batch = b]
    <3>1. q \in PollRecord /\ q.topic = p.topic /\ q.after = p.after
          /\ q.cancelled = p.cancelled /\ q.batch = b
      BY <1>2, <1>4 DEF PollRecord
    <3>2. polls' = {q}
      BY <1>2, <2>1
    <3> QED BY <3>1, <3>2
  <2>2. CASE polls' = (polls \ {p}) \cup {[p EXCEPT !.stage = "failed"]}
    <3> DEFINE q == [p EXCEPT !.stage = "failed"]
    <3>1. q \in PollRecord /\ q.topic = p.topic /\ q.after = p.after
          /\ q.cancelled = p.cancelled /\ q.stage = "failed"
      BY <1>2 DEF PollRecord
    <3>2. polls' = {q}
      BY <1>2, <2>2
    <3> QED BY <3>1, <3>2
  <2> QED BY <2>1, <2>2 DEF MessageTail!Answer, b
<1>6. q.stage = "ok" => IsBatch(q)
  <2>1. length[p.topic] \in 0..length[p.topic] /\ length[p.topic] \in p.after..length[p.topic]
    BY <1>2, <1>3
  <2> QED BY <1>4, <1>5, <2>1 DEF IsBatch
<1>7. IsBatch(q)' <=> IsBatch(q)
  BY <1>1 DEF IsBatch
<1>8. Polling'
  BY <1>1, <1>2, <1>5, <1>6, <1>7 DEF Polling
<1> QED BY <1>1, <1>8 DEF TailInv, Types, Accounted

(* The rows of a batch: the newest first, all of them past the cursor. *)
LEMMA ArrivedRows ==
    ASSUME TailInv, NEW p \in polls, p.stage = "ok", p.topic = topic, p.after = cursor
    PROVE  LET s == MessageTail!Arrived(p)
               n == IF p.after = -1 THEN 0 ELSE p.batch.last - p.batch.first + 1 IN
           /\ s \in Seq(MessageTail!Row) /\ Len(s) = n /\ n \in Nat
           /\ \A i \in 1..Len(s) : /\ s[i][1] = topic /\ s[i][2] = p.batch.last - i + 1
                                   /\ s[i][2] > cursor /\ s[i][2] <= p.batch.cursor
           /\ IsFiniteSet({s[i] : i \in 1..Len(s)}) /\ Cardinality({s[i] : i \in 1..Len(s)}) = n
<1> DEFINE s == MessageTail!Arrived(p)
           n == IF p.after = -1 THEN 0 ELSE p.batch.last - p.batch.first + 1
<1>1. /\ p \in PollRecord /\ IsBatch(p) /\ p.batch.last \in Int /\ p.batch.first \in Int
      /\ p.after \in -1..MaxMessages /\ p.topic \in Topics /\ length[p.topic] \in 0..MaxMessages
      /\ p.batch.cursor \in Int
  BY DEF TailInv, Types, Polling, PollRecord, Shape
<1>2. /\ n \in Nat /\ MessageTail!Greater(p.batch.last - p.batch.first + 1, 0) = n
      /\ \A i \in 1..n : /\ p.batch.last - i + 1 \in 1..MaxMessages
                         /\ p.batch.last - i + 1 > p.after /\ p.batch.last - i + 1 <= p.batch.cursor
  <2>1. CASE p.after = -1
    BY <1>1, <2>1, TailAssumption DEF IsBatch, MessageTail!Greater
  <2>2. CASE p.after # -1
    BY <1>1, <2>2, TailAssumption DEF IsBatch, MessageTail!Greater
  <2> QED BY <2>1, <2>2
<1> HIDE DEF n
<1>3. s = [i \in 1..n |-> <<topic, p.batch.last - i + 1>>]
  BY <1>2 DEF MessageTail!Arrived
<1>4. s \in [1..n -> MessageTail!Row]
  BY <1>1, <1>2, <1>3 DEF MessageTail!Row
<1>5. s \in Seq(MessageTail!Row) /\ Len(s) = n
  BY <1>2, <1>3, <1>4, SeqDef
<1>6. \A i \in 1..n : s[i][1] = topic /\ s[i][2] = p.batch.last - i + 1
  BY <1>3
<1>7. IsFiniteSet({s[i] : i \in 1..n}) /\ Cardinality({s[i] : i \in 1..n}) = n
  <2>1. \A i, j \in 1..n : s[i] = s[j] => i = j
    BY <1>1, <1>2, <1>6
  <2> DEFINE T == {s[i] : i \in 1..n}
  <2>2. s \in [1..n -> T] /\ \A t \in T : \E i \in 1..n : s[i] = t
    BY <1>3
  <2> HIDE DEF s, T
  <2>3. s \in Bijection(1..n, T)
    BY <2>1, <2>2, Fun_IsBij
  <2>4. ExistsBijection(1..n, T)
    BY <2>3 DEF ExistsBijection
  <2>5. IsFiniteSet(1..n) /\ Cardinality(1..n) = n
    <3>1. n \in Int /\ 1 \in Int /\ (IF 1 > n THEN 0 ELSE n - 1 + 1) = n
      BY <1>2
    <3> HIDE DEF n
    <3>2. /\ IsFiniteSet(1..n)
          /\ Cardinality(1..n) = IF 1 > n THEN 0 ELSE n - 1 + 1
      BY <3>1, FS_Interval
    <3> QED BY <3>1, <3>2
  <2>6. IsFiniteSet(T) /\ Cardinality(T) = n
    BY <2>4, <2>5, FS_Bijection
  <2> QED BY <2>6 DEF T
<1> HIDE DEF s
<1>8. \A i \in 1..Len(s) : /\ s[i][1] = topic /\ s[i][2] = p.batch.last - i + 1
                           /\ s[i][2] > cursor /\ s[i][2] <= p.batch.cursor
  BY <1>2, <1>5, <1>6
<1> QED BY <1>2, <1>5, <1>7, <1>8 DEF s, n

(* A reply that is not cancelled moves the tail to where its batch ends. *)
LEMMA ReplyMoves ==
    ASSUME TailInv, NEW p \in polls, MessageTail!Reply(p), ~p.cancelled
    PROVE  /\ cursor' \in 0..length[topic] /\ opened' \in 0..cursor' /\ dropped' \in Nat
           /\ cursor <= cursor'
           /\ seen' \subseteq MessageTail!Row /\ IsFiniteSet(seen')
           /\ Cardinality(seen') + dropped' = cursor' - opened'
           /\ \A r \in seen' : r[2] <= cursor'
<1> DEFINE s == MessageTail!Arrived(p)
           n == IF p.after = -1 THEN 0 ELSE p.batch.last - p.batch.first + 1
           new == {s[i] : i \in 1..Len(s)}
<1>1. /\ p.stage = "ok" /\ p.topic = topic /\ p.after = cursor /\ IsBatch(p) /\ p \in PollRecord
      /\ p.after <= length[p.topic]
  BY DEF TailInv, Polling, MessageTail!Reply
<1>2. /\ cursor' = p.batch.cursor /\ dropped' = dropped + p.batch.dropped
      /\ seen' = seen \cup new /\ opened' = IF opened = -1 THEN p.batch.cursor ELSE opened
  BY DEF MessageTail!Reply, MessageTail!None
<1>3. /\ s \in Seq(MessageTail!Row) /\ Len(s) = n /\ n \in Nat
      /\ \A i \in 1..Len(s) : s[i][2] > cursor /\ s[i][2] <= p.batch.cursor
      /\ IsFiniteSet(new) /\ Cardinality(new) = n
  BY <1>1, ArrivedRows
<1>4. /\ cursor \in -1..MaxMessages /\ opened \in -1..MaxMessages /\ dropped \in Nat
      /\ length[topic] \in Nat
      /\ p.batch.cursor \in Int /\ p.batch.first \in Int /\ p.batch.last \in Int /\ p.batch.dropped \in Int
  BY <1>1 DEF TailInv, Types, PollRecord, Shape
<1> HIDE DEF s
<1>5. new \subseteq MessageTail!Row /\ \A r \in new : r[2] > cursor /\ r[2] <= p.batch.cursor
  <2>1. \A i \in 1..Len(s) : s[i] \in MessageTail!Row
    BY <1>3
  <2> QED BY <1>3, <2>1
<1> HIDE DEF new
<1>6. seen' \subseteq MessageTail!Row
  BY <1>2, <1>5 DEF TailInv, Types
<1>7. CASE cursor = -1
  <2>1. p.batch.cursor \in 0..length[topic] /\ p.batch.dropped = 0 /\ n = 0
    BY <1>1, <1>7 DEF IsBatch
  <2>2. seen = {} /\ dropped = 0 /\ opened = -1
    BY <1>7 DEF TailInv, Accounted
  <2>3. seen' = new /\ cursor' = p.batch.cursor /\ opened' = p.batch.cursor /\ dropped' = 0
    BY <1>2, <2>1, <2>2
  <2>4. /\ cursor' \in 0..length[topic] /\ opened' \in 0..cursor' /\ dropped' \in Nat /\ cursor <= cursor'
    BY <1>4, <1>7, <2>1, <2>3
  <2>5. Cardinality(seen') + dropped' = cursor' - opened'
    BY <1>3, <1>4, <2>1, <2>3
  <2> QED BY <1>3, <1>5, <1>6, <2>3, <2>4, <2>5
<1>8. CASE cursor # -1
  <2>1. /\ p.batch.cursor = p.batch.last /\ p.batch.last \in cursor..length[topic]
        /\ p.batch.first \in (cursor + 1)..(p.batch.last + 1)
        /\ p.batch.dropped = p.batch.first - cursor - 1 /\ n = p.batch.last - p.batch.first + 1
    BY <1>1, <1>8 DEF IsBatch
  <2>2. /\ opened \in 0..cursor /\ IsFiniteSet(seen) /\ Cardinality(seen) + dropped = cursor - opened
        /\ \A r \in seen : r[2] <= cursor
    BY <1>8 DEF TailInv, Accounted
  <2>3. cursor' = p.batch.last /\ opened' = opened /\ dropped' = dropped + p.batch.first - cursor - 1
    BY <1>2, <1>4, <2>1, <2>2
  <2>4. /\ cursor' \in 0..length[topic] /\ opened' \in 0..cursor' /\ dropped' \in Nat /\ cursor <= cursor'
    BY <1>4, <2>1, <2>2, <2>3
  <2>5. seen \cap new = {}
    <3>1. ASSUME NEW r \in seen, r \in new PROVE FALSE
      <4>1. r[2] \in Int
        BY <1>5, <3>1 DEF MessageTail!Row
      <4> QED BY <1>4, <1>5, <2>2, <3>1, <4>1
    <3> QED BY <3>1
  <2>6. IsFiniteSet(seen \cup new)
        /\ Cardinality(seen \cup new) = Cardinality(seen) + Cardinality(new) - Cardinality({})
    BY <1>3, <2>2, <2>5, FS_Union
  <2>7. Cardinality({}) = 0 /\ Cardinality(seen) \in Nat
    BY <2>2, FS_EmptySet, FS_CardinalityType
  <2>8. Cardinality(seen') + dropped' = cursor' - opened'
    <3>1. Cardinality(seen') = Cardinality(seen) + n
      BY <1>2, <1>3, <2>6, <2>7
    <3>2. n = p.batch.last - p.batch.first + 1 /\ opened \in Int /\ cursor \in Int
      BY <1>4, <2>1
    <3> HIDE DEF n
    <3> QED BY <1>4, <2>2, <2>3, <2>7, <3>1, <3>2
  <2>9. \A r \in seen' : r[2] <= cursor'
    <3>1. \A r \in seen' : r[2] \in Int
      BY <1>6 DEF MessageTail!Row
    <3>2. \A r \in seen : r[2] <= cursor
      BY <2>2
    <3> QED BY <1>2, <1>4, <1>5, <2>1, <2>3, <3>1, <3>2
  <2> QED BY <1>2, <1>6, <2>4, <2>6, <2>8, <2>9
<1> QED BY <1>7, <1>8

(* Its rows go in front of the others, and the buffer keeps the newest. *)
LEMMA ReplyRows ==
    ASSUME TailInv, NEW p \in polls, MessageTail!Reply(p), ~p.cancelled
    PROVE  /\ tailRows' \in Seq(MessageTail!Row) /\ Len(tailRows') <= Buffer
           /\ cursor' = -1 => tailRows' = <<>>
           /\ \A i \in 1..Len(tailRows') : tailRows'[i][1] = topic /\ tailRows'[i][2] <= cursor'
           /\ \A i, j \in 1..Len(tailRows') : i < j => tailRows'[i][2] > tailRows'[j][2]
<1> DEFINE s == MessageTail!Arrived(p)
           n == IF p.after = -1 THEN 0 ELSE p.batch.last - p.batch.first + 1
           c == s \o tailRows
           m == IF Len(c) < Buffer THEN Len(c) ELSE Buffer
<1>1. p.stage = "ok" /\ p.topic = topic /\ p.after = cursor /\ p \in PollRecord
  BY DEF TailInv, Polling, MessageTail!Reply
<1>2. tailRows' = SubSeq(c, 1, m) /\ cursor' = p.batch.cursor
  BY DEF MessageTail!Reply, MessageTail!FirstRows
<1>3. /\ s \in Seq(MessageTail!Row) /\ Len(s) = n /\ n \in Nat
      /\ \A i \in 1..Len(s) : /\ s[i][1] = topic /\ s[i][2] = p.batch.last - i + 1
                              /\ s[i][2] > cursor /\ s[i][2] <= p.batch.cursor
  BY <1>1, ArrivedRows
<1> HIDE DEF s, n
<1>4. /\ cursor \in Int /\ cursor' \in Nat /\ p.batch.last \in Int /\ cursor <= cursor'
      /\ tailRows \in Seq(MessageTail!Row)
  BY <1>1, <1>2, ReplyMoves DEF TailInv, Types, PollRecord, Shape
<1>5. \A i \in 1..Len(tailRows) : tailRows[i] \in MessageTail!Row
  BY <1>4
<1>6. /\ c \in Seq(MessageTail!Row) /\ Len(c) = n + Len(tailRows) /\ Len(tailRows) \in Nat
      /\ \A i \in 1..Len(c) : c[i] = IF i <= n THEN s[i] ELSE tailRows[i - n]
  <2>1. /\ c \in Seq(MessageTail!Row) /\ Len(c) = Len(s) + Len(tailRows)
        /\ \A i \in 1..(Len(s) + Len(tailRows)) :
              c[i] = IF i <= Len(s) THEN s[i] ELSE tailRows[i - Len(s)]
    BY <1>3, <1>4, ConcatProperties
  <2>2. Len(tailRows) \in Nat
    BY <1>4, LenProperties
  <2> HIDE DEF c
  <2> QED BY <1>3, <2>1, <2>2
<1> HIDE DEF c
<1>7. \A i \in 1..Len(c) : i <= n => /\ c[i][1] = topic /\ c[i][2] = p.batch.last - i + 1
                                    /\ c[i][2] > cursor /\ c[i][2] <= cursor'
  BY <1>2, <1>3, <1>6
<1>8. \A i \in 1..Len(c) : i > n =>
          /\ i - n \in 1..Len(tailRows) /\ c[i] = tailRows[i - n] /\ c[i][1] = topic /\ c[i][2] <= cursor
  <2>1. \A i \in 1..Len(c) : i > n => i - n \in 1..Len(tailRows) /\ c[i] = tailRows[i - n]
    BY <1>3, <1>6
  <2> QED BY <2>1 DEF TailInv, Accounted
<1>9. \A i \in 1..Len(c) : c[i] \in MessageTail!Row /\ c[i][2] \in Int
  <2>1. \A i \in 1..Len(c) : c[i] \in MessageTail!Row
    BY <1>6
  <2> QED BY <2>1 DEF MessageTail!Row
<1>10. \A i \in 1..Len(c) : c[i][1] = topic /\ c[i][2] <= cursor'
  BY <1>3, <1>4, <1>7, <1>8, <1>9
<1>11. ASSUME NEW i \in 1..Len(c), NEW j \in 1..Len(c), i < j PROVE c[i][2] > c[j][2]
  <2>1. CASE j <= n
    <3>1. c[i][2] = p.batch.last - i + 1 /\ c[j][2] = p.batch.last - j + 1
      BY <1>3, <1>7, <1>11, <2>1
    <3> QED BY <1>4, <1>11, <3>1
  <2>2. CASE i <= n /\ j > n
    <3>1. c[i][2] > cursor /\ c[j][2] <= cursor
      BY <1>7, <1>8, <2>2
    <3> QED BY <1>4, <1>9, <3>1
  <2>3. CASE i > n
    <3>1. /\ i - n \in 1..Len(tailRows) /\ j - n \in 1..Len(tailRows) /\ i - n < j - n
          /\ c[i] = tailRows[i - n] /\ c[j] = tailRows[j - n]
      BY <1>3, <1>8, <1>11, <2>3
    <3> QED BY <3>1 DEF TailInv, Accounted
  <2> QED BY <1>3, <2>1, <2>2, <2>3
<1>12. m \in Nat /\ m <= Len(c) /\ m <= Buffer /\ Len(c) \in Nat
  BY <1>3, <1>6, TailAssumption
<1> HIDE DEF m
<1>13. /\ tailRows' \in Seq(MessageTail!Row) /\ Len(tailRows') = m
       /\ \A i \in 1..m : tailRows'[i] = c[i]
  <2>1. \A i \in 1..m : c[i] \in MessageTail!Row
    BY <1>9, <1>12
  <2>2. /\ SubSeq(c, 1, m) \in Seq(MessageTail!Row)
        /\ Len(SubSeq(c, 1, m)) = IF 1 <= m THEN m - 1 + 1 ELSE 0
        /\ \A i \in 1..(m - 1 + 1) : SubSeq(c, 1, m)[i] = c[1 + i - 1]
    BY <1>12, <2>1, SubSeqProperties
  <2> QED BY <1>2, <1>12, <2>2
<1>14. \A i \in 1..m : i \in 1..Len(c)
  BY <1>12
<1>15. \A i \in 1..Len(tailRows') : tailRows'[i][1] = topic /\ tailRows'[i][2] <= cursor'
  BY <1>10, <1>13, <1>14
<1>16. \A i, j \in 1..Len(tailRows') : i < j => tailRows'[i][2] > tailRows'[j][2]
  BY <1>11, <1>13, <1>14
<1>17. Len(tailRows') <= Buffer /\ cursor' # -1
  BY <1>4, <1>12, <1>13
<1> QED BY <1>13, <1>15, <1>16, <1>17

LEMMA ReplyKeepsTail == ASSUME TailInv, NEW p \in polls, MessageTail!Reply(p) PROVE TailInv'
<1>1. UNCHANGED <<topic, online, tailing, length, oldest>> /\ polls' = {}
  BY DEF MessageTail!Reply, MessageTail!broker, TailInv, Polling
<1>2. Polling'
  BY <1>1 DEF Polling
<1>3. CASE p.cancelled
  <2>1. UNCHANGED <<cursor, tailRows, dropped, seen, opened>>
    BY <1>3 DEF MessageTail!Reply
  <2> QED BY <1>1, <1>2, <2>1 DEF TailInv, Types, Accounted
<1>4. CASE ~p.cancelled
  <2>1. length[topic] \in 0..MaxMessages
    BY DEF TailInv, Types
  <2>2. /\ cursor' \in 0..length[topic] /\ opened' \in 0..cursor' /\ dropped' \in Nat
        /\ seen' \subseteq MessageTail!Row /\ IsFiniteSet(seen')
        /\ Cardinality(seen') + dropped' = cursor' - opened'
        /\ \A r \in seen' : r[2] <= cursor'
    BY <1>4, ReplyMoves
  <2>3. cursor' \in -1..MaxMessages /\ opened' \in -1..MaxMessages /\ cursor' # -1 /\ cursor' <= length[topic]
    BY <2>1, <2>2, TailAssumption
  <2>4. Types'
    BY <1>1, <1>4, <2>2, <2>3, ReplyRows DEF TailInv, Types
  <2>5. Accounted'
    BY <1>1, <1>4, <2>2, <2>3, ReplyRows DEF Accounted
  <2> QED BY <1>2, <2>4, <2>5 DEF TailInv
<1> QED BY <1>3, <1>4

LEMMA FailureKeepsTail == ASSUME TailInv, NEW p \in polls, MessageTail!Failure(p) PROVE TailInv'
<1>1. /\ UNCHANGED <<topic, online, tailing, cursor, tailRows, dropped, seen, opened, length, oldest>>
      /\ polls' = {}
  BY DEF MessageTail!Failure, MessageTail!broker, TailInv, Polling
<1> QED BY <1>1 DEF TailInv, Types, Polling, Accounted

LEMMA TailStep == ASSUME TailInv, MessageTail!Next \/ UNCHANGED tailVars PROVE TailInv'
<1>1. CASE MessageTail!Next
  BY <1>1, SwitchKeeps, TickKeeps, TopicsKeep, AnswerKeepsTail, ReplyKeepsTail, FailureKeepsTail
     DEF MessageTail!Next
<1>2. CASE UNCHANGED tailVars
  BY <1>2 DEF tailVars, TailInv, Types, Polling, Accounted, IsBatch
<1> QED BY <1>1, <1>2

--------------------------------------------------------------------------------
(* The pages together: every part keeps its invariant whether it moves or rests. *)

PagesInv == BoardInv /\ BrowseInv /\ TailInv

LEMMA PagesInitInv == Init => PagesInv
BY BoardInitInv, BrowseInitInv, TailInitInv DEF Init, PagesInv

LEMMA PagesStep == PagesInv /\ [Next]_vars => PagesInv'
<1> SUFFICES ASSUME PagesInv, [Next]_vars PROVE PagesInv'
  OBVIOUS
<1>1. /\ Board!Next \/ UNCHANGED boardVars
      /\ Browser!Next \/ UNCHANGED browseVars
      /\ MessageTail!Next \/ UNCHANGED tailVars
  BY DEF Next, OnlyBoards, OnlyBrowse, OnlyTail, vars
<1>2. BoardInv'
  BY <1>1, BoardStep DEF PagesInv
<1>3. BrowseInv'
  BY <1>1, BrowseStep DEF PagesInv
<1>4. TailInv'
  BY <1>1, TailStep DEF PagesInv
<1> QED BY <1>2, <1>3, <1>4 DEF PagesInv

LEMMA PagesInvariant == Spec => []PagesInv
<1> QED BY PagesInitInv, PagesStep, PTL DEF Spec

(* A change the user was told of is on screen, or a read that will show it is due, on
   every page but those that do not read their panel again (LeaveBehind). *)
THEOREM BoardsShowTheirChanges == Spec => []ChangeIsShown
<1>1. PagesInv => ChangeIsShown
  BY BoardInvImplies DEF PagesInv, ChangeIsShown
<1> QED BY <1>1, PagesInvariant, PTL

(* A button or spinner that is on has the one request or read that will turn it off,
   however many are under way. *)
THEOREM ButtonsHaveRequests == Spec => []PagesConsistent
<1>1. PagesInv => PagesConsistent
  BY BoardInvImplies, BrowseInvImplies, TailInvImplies DEF PagesInv, PagesConsistent
<1> QED BY <1>1, PagesInvariant, PTL

(* A browsing page shows the newest answer it asked for, of the source picked. *)
THEOREM BrowsersKeepOrder == Spec => []ShowsWhatWasAsked
<1>1. PagesInv => ShowsWhatWasAsked
  BY BrowseInvImplies DEF PagesInv, ShowsWhatWasAsked
<1> QED BY <1>1, PagesInvariant, PTL

(* The rows of a tail, with the loss counted, leave no hole, come newest first and are
   there once, whatever polls are late, fail or are cancelled. *)
THEOREM TailLeavesNoHole == Spec => []TailIsWhole
<1>1. PagesInv => TailIsWhole
  BY TailInvImplies DEF PagesInv, TailIsWhole
<1> QED BY <1>1, PagesInvariant, PTL
================================================================================
