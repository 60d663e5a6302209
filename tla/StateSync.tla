------------------------------ MODULE StateSync ------------------------------
(* core/pubsub.py and core/statesync.py: brokers, and sessions that forward  *)
(* topics between two of them. publish copies the callbacks under the        *)
(* broker's lock and calls them after it; a forwarder among them publishes   *)
(* to the other broker from within. One topic, clients that stay subscribed. *)
EXTENDS Integers, Sequences, FiniteSets, SequencesExt

CONSTANTS
    Brokers,          \* each with one client subscribed
    Sessions,         \* session -> <<the two brokers>>
    SyncMessages      \* messages, each published once by a client

ASSUME StateSyncAssumption ==
    \A s \in DOMAIN Sessions : Sessions[s] \in Brokers \X Brokers

VARIABLES
    callbacks,        \* broker -> _topic_subs: forwarders, in order
    session,          \* session -> what has been done of it
    publisher,        \* message -> the stack of its publish calls
    handed,           \* history: message -> broker -> times its client was called
    through           \* history: message -> sessions that forwarded it, directed

syncVars == <<callbacks, session, publisher, handed, through>>

(* A forwarder of s that takes messages from one of its brokers. *)
From(s, side) == Sessions[s][side]
To(s, side) == Sessions[s][3 - side]
Forwarder(s, side) == [session |-> s, side |-> side]

SyncInit ==
    /\ callbacks = [b \in Brokers |-> <<>>]
    /\ session = [s \in DOMAIN Sessions |-> "none"]
    /\ publisher = [m \in SyncMessages |-> <<>>]
    /\ handed = [m \in SyncMessages |-> [b \in Brokers |-> 0]]
    /\ through = [m \in SyncMessages |-> {}]

(* create_session: one direction is subscribed, then the other, then the     *)
(* session is registered and stop_session can find it.                       *)
SubscribeSide(s, side) ==
    /\ session[s] = (IF side = 1 THEN "none" ELSE "half")
    /\ callbacks' = [callbacks EXCEPT ![From(s, side)] = Append(@, Forwarder(s, side))]
    /\ session' = [session EXCEPT ![s] = IF side = 1 THEN "half" ELSE "active"]
    /\ UNCHANGED <<publisher, handed, through>>

(* stop_session: the same order; what a publish has copied is called still. *)
UnsubscribeSide(s, side) ==
    /\ session[s] = (IF side = 1 THEN "active" ELSE "stopping")
    /\ callbacks' = [callbacks EXCEPT ![From(s, side)] = RemoveFirst(@, Forwarder(s, side))]
    /\ session' = [session EXCEPT ![s] = IF side = 1 THEN "stopping" ELSE "stopped"]
    /\ UNCHANGED <<publisher, handed, through>>

(* A frame of publish: the broker, the flag, and the callbacks copied and    *)
(* not yet called, the client's last.                                        *)
Frame(b, flagged) == [broker |-> b, flagged |-> flagged, left |-> callbacks[b]]

(* A client publishes a message, in a thread of its own. *)
PublishMessage(m, b) ==
    /\ publisher[m] = <<>> /\ \A c \in Brokers : handed[m][c] = 0
    /\ publisher' = [publisher EXCEPT ![m] = <<Frame(b, FALSE)>>]
    /\ UNCHANGED <<callbacks, session, handed, through>>

Top(m) == publisher[m][Len(publisher[m])]
Rest(m) == SubSeq(publisher[m], 1, Len(publisher[m]) - 1)
Called(m) == Append(Rest(m), [Top(m) EXCEPT !.left = Tail(@)])

MutForward(m) ==
    /\ publisher[m] # <<>> /\ Top(m).left # <<>>
    /\ LET f == Head(Top(m).left) IN
       /\ publisher' = [publisher EXCEPT ![m] = Append(Called(m), Frame(To(f.session, f.side), FALSE))]
       /\ through' = [through EXCEPT ![m] = @ \cup {f}]
    /\ UNCHANGED <<callbacks, session, handed>>

(* _cb: a message with the flag is not passed on; any other is published to  *)
(* the session's other broker with the flag, whether the session is active   *)
(* or not.                                                                   *)
Forward(m) ==
    /\ publisher[m] # <<>> /\ Top(m).left # <<>>
    /\ LET f == Head(Top(m).left) IN
       IF Top(m).flagged
       THEN publisher' = [publisher EXCEPT ![m] = Called(m)] /\ UNCHANGED through
       ELSE /\ publisher' = [publisher EXCEPT ![m] =
                 Append(Called(m), Frame(To(f.session, f.side), TRUE))]
            /\ through' = [through EXCEPT ![m] = @ \cup {f}]
    /\ UNCHANGED <<callbacks, session, handed>>

(* The client of the broker is called, and its publish returns. *)
CallClient(m) ==
    /\ publisher[m] # <<>> /\ Top(m).left = <<>>
    /\ handed' = [handed EXCEPT ![m][Top(m).broker] = @ + 1]
    /\ publisher' = [publisher EXCEPT ![m] = Rest(m)]
    /\ UNCHANGED <<callbacks, session, through>>

SyncNext ==
    \/ \E s \in DOMAIN Sessions, side \in {1, 2} : SubscribeSide(s, side) \/ UnsubscribeSide(s, side)
    \/ \E m \in SyncMessages : Forward(m) \/ CallClient(m) \/ \E b \in Brokers : PublishMessage(m, b)

SyncSpec == SyncInit /\ [][SyncNext]_syncVars

-----------------------------------------------------------------------------
(* However brokers are joined, sessions come and go: forwarding ends, since  *)
(* a message goes one hop; its own broker's clients get it once; those of    *)
(* another broker once for each session that took it there directly, and not *)
(* at all by a detour.                                                       *)
NoEcho ==
    \A m \in SyncMessages :
        /\ Len(publisher[m]) <= 2
        /\ publisher[m] = <<>> =>
             \A b \in Brokers :
                 LET here == Cardinality({f \in through[m] : To(f.session, f.side) = b})
                 IN  \/ handed[m][b] = here /\ \A f \in through[m] : From(f.session, f.side) # b
                     \/ handed[m][b] = here + 1 /\ \A f \in through[m] : From(f.session, f.side) = b
=============================================================================
