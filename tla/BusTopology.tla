------------------------------ MODULE BusTopology ------------------------------
(***************************************************************************)
(* What the AMQP drivers declare at the broker: the queue a consumer class *)
(* binds to an exchange, the exchange and key a publisher class sends to.  *)
(* Names are tuples.                                                       *)
(***************************************************************************)
EXTENDS Naturals, Sequences

ControlExchange == <<"control">>
FanoutExchange(topic) == topic \o <<"fanout">>

NoKey == <<>>

Queue(name, exchange, key, autoDelete) ==
    [name |-> name, exchange |-> exchange, key |-> key, autoDelete |-> autoDelete]
Publisher(exchange, key) == [exchange |-> exchange, key |-> key]

(* impl_kombu.py.  A topic queue stays when its consumers go. *)

KombuDirectConsumer(msg_id) == Queue(msg_id, msg_id, msg_id, TRUE)

KombuTopicConsumer(topic) == Queue(topic, ControlExchange, topic, FALSE)

KombuFanoutConsumer(topic, unique) ==
    Queue(FanoutExchange(topic) \o <<unique>>, FanoutExchange(topic), topic, TRUE)

KombuTopicPublisher(topic)  == Publisher(ControlExchange, topic)
KombuFanoutPublisher(topic) == Publisher(FanoutExchange(topic), NoKey)

\* The NotifyPublisher declares the queue of its topic, so that a notice nobody
\* consumes yet is kept.
KombuNotifyQueue(topic) == KombuTopicConsumer(topic)

(* impl_qpid.py.  A topic queue goes with its last consumer, and a publisher
   declares nothing but its exchange. *)

QpidDirectConsumer(msg_id) == Queue(msg_id, msg_id, msg_id, TRUE)

QpidTopicConsumer(topic) == Queue(topic, ControlExchange, topic, TRUE)

\* A mutant of QpidFanoutConsumer: the queue is the topic's, not the consumer's.
QpidFanoutConsumer_shared(topic, unique) ==
    Queue(FanoutExchange(topic), FanoutExchange(topic), topic, TRUE)

QpidFanoutConsumer(topic, unique) ==
    Queue(FanoutExchange(topic) \o <<unique>>, FanoutExchange(topic), topic, TRUE)

QpidTopicPublisher(topic)  == Publisher(ControlExchange, topic)
QpidFanoutPublisher(topic) == Publisher(FanoutExchange(topic), NoKey)
QpidNotifyPublisher(topic) == Publisher(ControlExchange, topic)

\* A fanout exchange ignores the routing key.
Reaches(publisher, queue) ==
    /\ publisher.exchange = queue.exchange
    /\ publisher.key \in {queue.key, NoKey}
=============================================================================
