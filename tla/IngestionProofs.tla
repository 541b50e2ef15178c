-------------------------- MODULE IngestionProofs --------------------------
(***************************************************************************)
(* The safety properties of Ingestion, and that it implements BronzeFeed,  *)
(* for any number of invocations, requests and posts and any times.        *)
(*                                                                         *)
(* The invariant follows a record from the wrapping to Bronze: what has    *)
(* been wrapped is acceptable and not older than the function may run,     *)
(* what the stream holds was put in that time and not longer ago than it   *)
(* is retained, what it holds without a Firehose is exposed or written,    *)
(* and what it ever took is still there, written or exposed.               *)
(***************************************************************************)
EXTENDS Ingestion, TLAPS

\* A wrapped record is one of the contract, and its invocation still runs.
WrappedInTime ==
  \A i \in Invocation : At(i, "put") =>
    /\ Acceptable(call[i].request)
    /\ call[i].received_at <= now
    /\ now <= call[i].received_at + LambdaTimeout

\* A put is of a running invocation, and a record stays as long as it may.
PutInTime ==
  \A record \in stream :
    /\ record.put_at <= record.received_at + LambdaTimeout
    /\ now <= record.put_at + StreamRetention
    /\ record.received_at <= record.put_at /\ record.put_at <= now

\* Without a Firehose nothing that waits in the stream is safe.
UnreadIsExposed == ~firehose_up => Unwritten \subseteq Stored \cup exposed

\* What the stream took of a running invocation is where AcceptedIsSafe says.
TakenIsSafe ==
  \A i \in Invocation :
    call[i].taken => At(i, "put") /\ WrappedBy(i) \in Unwritten \cup Stored \cup exposed

IInv ==
  /\ TypeOK
  /\ WrappedInTime
  /\ PutInTime
  /\ UnreadIsExposed
  /\ TakenIsSafe
  /\ AcceptedIsSafe
  /\ GoodRequestIsNotDropped

CallRecord == [stage : Stage, request : Request, received_at : Time, taken : BOOLEAN,
               status : Status]

-----------------------------------------------------------------------------
(* The checks of lambda_handler.                                           *)

\* The handler has no other answer before the put.
LEMMA RefusalIsAStatus == ASSUME NEW request PROVE Refusal(request) \in Status
  BY DEF Refusal, Status

\* What passes every check is acceptable.
LEMMA PassesWhenAcceptable ==
  ASSUME NEW request, Refusal(request) = 0 PROVE Acceptable(request)
  BY DEF Refusal, Acceptable

\* An acceptable request is refused for the state of streaming alone.
LEMMA AcceptableIsNotRefused ==
  ASSUME NEW request, Acceptable(request) PROVE Refusal(request) \notin {400, 401}
  BY DEF Refusal, Acceptable, Authorized

LEMMA AcceptableEventOf ==
  ASSUME NEW request \in Request, Acceptable(request)
  PROVE  request.event \in AcceptableEvent
  BY DEF AcceptableEvent

-----------------------------------------------------------------------------
(* Initial states and types.                                               *)

LEMMA CallType ==
  ASSUME NEW stage \in Stage, NEW request \in Request, NEW status \in Status
  PROVE  Call(stage, request, status) \in CallRecord
  BY IngestionAssumption DEF Call, CallRecord, Time

LEMMA InitIInv == Init => IInv
<1> SUFFICES ASSUME Init PROVE IInv
  OBVIOUS
<1>a. (CHOOSE request \in Request : TRUE) \in Request
  BY IngestionAssumption
<1>b. Call("idle", CHOOSE request \in Request : TRUE, 0) \in CallRecord
  BY <1>a, CallType DEF Stage, Status
<1>c. call \in [Invocation -> CallRecord]
  BY <1>b DEF Init
<1>d. now \in Time /\ posts \in 0 .. MaxPosts
  BY IngestionAssumption DEF Init, Time
<1>e. /\ stream_up = FALSE /\ firehose_up = FALSE /\ enabled = FALSE
      /\ stream = {} /\ bronze = {} /\ accepted = {} /\ exposed = {}
  BY DEF Init
<1>1. TypeOK
  BY <1>c, <1>d, <1>e DEF TypeOK, CallRecord
<1>2. \A i \in Invocation : ~At(i, "put") /\ ~At(i, "answered") /\ ~call[i].taken
  BY DEF Init, At, Call
<1> QED
  BY <1>1, <1>2 DEF Init, IInv, WrappedInTime, PutInTime, UnreadIsExposed, TakenIsSafe,
     AcceptedIsSafe, GoodRequestIsNotDropped, Unwritten, Stored

-----------------------------------------------------------------------------
(* Steps of one invocation.                                                *)

\* What one invocation does without the stream: it ends, or wraps a record in
\* time, and accepts nothing but what is safe.
LEMMA CallStep ==
  ASSUME IInv, NEW i \in Invocation,
         call' \in [Invocation -> CallRecord],
         \A j \in Invocation \ {i} : call'[j] = call[j],
         ~call'[i].taken,
         call'[i].stage = "put" =>
           /\ Acceptable(call'[i].request)
           /\ call'[i].received_at <= now /\ now <= call'[i].received_at + LambdaTimeout,
         call'[i].stage = "answered" /\ Acceptable(call'[i].request) =>
           call'[i].status \notin {400, 401},
         posts' \in 0 .. MaxPosts,
         accepted' \subseteq Record,
         accepted' \subseteq accepted \cup Unwritten \cup Stored \cup exposed,
         UNCHANGED <<now, stream_up, firehose_up, enabled, stream, bronze, exposed>>
  PROVE  IInv'
<1>1. TypeOK'
  BY DEF IInv, TypeOK, CallRecord
<1>2. WrappedInTime'
  BY DEF IInv, WrappedInTime, At
<1>3. PutInTime' /\ UnreadIsExposed'
  BY DEF IInv, PutInTime, UnreadIsExposed, Unwritten, Stored
<1>a. Unwritten' = Unwritten /\ Stored' = Stored
  BY DEF Unwritten, Stored
<1>4. TakenIsSafe'
  <2> SUFFICES ASSUME NEW j \in Invocation, call'[j].taken
               PROVE  At(j, "put")' /\ WrappedBy(j)' \in (Unwritten \cup Stored \cup exposed)'
    BY DEF TakenIsSafe
  <2>1. call'[j] = call[j]
    OBVIOUS
  <2> QED
    BY <1>a, <2>1 DEF IInv, TakenIsSafe, At, WrappedBy
<1>5. AcceptedIsSafe'
  BY DEF IInv, AcceptedIsSafe, Unwritten, Stored
<1>6. GoodRequestIsNotDropped'
  BY DEF IInv, GoodRequestIsNotDropped, At
<1> QED
  BY <1>1, <1>2, <1>3, <1>4, <1>5, <1>6 DEF IInv

LEMMA AnswerType ==
  ASSUME IInv, NEW i \in Invocation, NEW status \in Status, Answer(i, status)
  PROVE  /\ call' \in [Invocation -> CallRecord]
         /\ \A j \in Invocation \ {i} : call'[j] = call[j]
         /\ call'[i].stage = "answered" /\ call'[i].status = status
         /\ call'[i].request = call[i].request /\ ~call'[i].taken
<1>1. Call("answered", call[i].request, status) \in CallRecord
  BY CallType DEF IInv, TypeOK, Stage
<1> QED
  BY <1>1 DEF Answer, Call, IInv, TypeOK, CallRecord

LEMMA PostStep ==
  ASSUME IInv, NEW i \in Invocation, NEW request \in Request, Post(i, request)
  PROVE  IInv'
<1>1. Call("posted", request, 0) \in CallRecord
  BY CallType DEF Stage, Status
<1>2. /\ call' \in [Invocation -> CallRecord] /\ call'[i].stage = "posted" /\ ~call'[i].taken
      /\ \A j \in Invocation \ {i} : call'[j] = call[j]
  BY <1>1 DEF Post, Call, IInv, TypeOK, CallRecord
<1>3. posts' \in 0 .. MaxPosts /\ accepted' \subseteq Record
  BY IngestionAssumption DEF Post, IInv, TypeOK
<1>4. /\ accepted' = accepted
      /\ UNCHANGED <<now, stream_up, firehose_up, enabled, stream, bronze, exposed>>
  BY DEF Post
<1> QED
  BY <1>2, <1>3, <1>4, CallStep

LEMMA RefuseStep ==
  ASSUME IInv, NEW i \in Invocation, Refuse(i) PROVE IInv'
<1>1. Refusal(call[i].request) \in Status /\ Answer(i, Refusal(call[i].request))
  BY RefusalIsAStatus DEF Refuse
<1>2. Acceptable(call[i].request) => Refusal(call[i].request) \notin {400, 401}
  BY AcceptableIsNotRefused
<1>3. posts' \in 0 .. MaxPosts /\ accepted' \subseteq Record
  BY DEF Refuse, IInv, TypeOK
<1>4. /\ accepted' = accepted
      /\ UNCHANGED <<now, stream_up, firehose_up, enabled, stream, bronze, exposed>>
  BY DEF Refuse
<1> QED
  BY <1>1, <1>2, <1>3, <1>4, AnswerType, CallStep

LEMMA WrapStep ==
  ASSUME IInv, NEW i \in Invocation, Wrap(i) PROVE IInv'
<1>1. Acceptable(call[i].request)
  BY PassesWhenAcceptable DEF Wrap
<1>2. now \in Time /\ now <= now + LambdaTimeout
  BY IngestionAssumption DEF IInv, TypeOK, Time
<1>3. /\ call' \in [Invocation -> CallRecord]
      /\ \A j \in Invocation \ {i} : call'[j] = call[j]
      /\ call'[i].stage = "put" /\ call'[i].request = call[i].request
      /\ call'[i].received_at = now /\ call'[i].taken = call[i].taken
  BY <1>2 DEF Wrap, IInv, TypeOK, CallRecord, Stage
<1>4. ~call'[i].taken
  BY <1>3 DEF Wrap, IInv, TakenIsSafe, At
<1>5. posts' \in 0 .. MaxPosts /\ accepted' \subseteq Record
  BY DEF Wrap, IInv, TypeOK
<1>6. /\ accepted' = accepted
      /\ UNCHANGED <<now, stream_up, firehose_up, enabled, stream, bronze, exposed>>
  BY DEF Wrap
<1>7. now <= now
  BY <1>2, IngestionAssumption DEF Time
<1> QED
  BY <1>1, <1>2, <1>3, <1>4, <1>5, <1>6, <1>7, CallStep

LEMMA AcknowledgeStep ==
  ASSUME IInv, NEW i \in Invocation, Acknowledge(i) PROVE IInv'
<1>1. Answer(i, 202) /\ 202 \in Status /\ call[i].taken /\ At(i, "put")
  BY DEF Acknowledge, Status
<1>2. WrappedBy(i) \in Unwritten \cup Stored \cup exposed
  BY <1>1 DEF IInv, TakenIsSafe
<1>3. WrappedBy(i) \in Record
  BY <1>1, AcceptableEventOf DEF IInv, TypeOK, CallRecord, WrappedInTime, WrappedBy, Record
<1>4. /\ accepted' = accepted \cup {WrappedBy(i)} /\ accepted \subseteq Record
      /\ posts' \in 0 .. MaxPosts
      /\ UNCHANGED <<now, stream_up, firehose_up, enabled, stream, bronze, exposed>>
  BY DEF Acknowledge, IInv, TypeOK
<1> QED
  BY <1>1, <1>2, <1>3, <1>4, AnswerType, CallStep

LEMMA RaiseStep ==
  ASSUME IInv, NEW i \in Invocation, Raise(i) PROVE IInv'
<1>1. Answer(i, 500) /\ 500 \in Status
  BY DEF Raise, Status
<1>2. posts' \in 0 .. MaxPosts /\ accepted' \subseteq Record
  BY DEF Raise, IInv, TypeOK
<1>3. /\ accepted' = accepted
      /\ UNCHANGED <<now, stream_up, firehose_up, enabled, stream, bronze, exposed>>
  BY DEF Raise
<1> QED
  BY <1>1, <1>2, <1>3, AnswerType, CallStep

\* The stream takes the record, once more perhaps: with a Firehose it is safe
\* again, without one it is exposed.
LEMMA PutStep ==
  ASSUME IInv, NEW i \in Invocation, Put(i) PROVE IInv'
<1> DEFINE record == [event |-> call[i].request.event,
                      received_at |-> call[i].received_at, put_at |-> now]
<1>1. /\ At(i, "put") /\ stream' = stream \cup {record}
      /\ exposed' = IF firehose_up THEN exposed \ {WrappedBy(i)}
                    ELSE exposed \cup {WrappedBy(i)}
      /\ UNCHANGED <<now, stream_up, firehose_up, enabled, bronze, posts, accepted>>
  BY DEF Put
<1>2. /\ Acceptable(call[i].request) /\ call[i].request \in Request
      /\ call[i].received_at \in Time /\ now \in Time
      /\ call[i].received_at <= now /\ now <= call[i].received_at + LambdaTimeout
  BY <1>1 DEF IInv, WrappedInTime, TypeOK, CallRecord
<1>3. call[i].request.event \in AcceptableEvent
  BY <1>2, AcceptableEventOf
<1>4. /\ call' \in [Invocation -> CallRecord]
      /\ \A j \in Invocation : /\ call'[j].stage = call[j].stage
                               /\ call'[j].request = call[j].request
                               /\ call'[j].received_at = call[j].received_at
                               /\ call'[j].status = call[j].status
                               /\ j # i => call'[j].taken = call[j].taken
  BY DEF Put, IInv, TypeOK, CallRecord
<1>5. TypeOK'
  BY <1>1, <1>2, <1>3, <1>4 DEF IInv, TypeOK, CallRecord, WrappedBy, Record
<1>6. WrappedInTime' /\ GoodRequestIsNotDropped'
  BY <1>1, <1>4 DEF IInv, WrappedInTime, GoodRequestIsNotDropped, At
<1>7. PutInTime'
  BY <1>1, <1>2, IngestionAssumption DEF IInv, PutInTime, Time
<1>8. /\ Unwritten' = Unwritten \cup {WrappedBy(i)} /\ Stored' = Stored
  <2>1. [event |-> record.event, received_at |-> record.received_at] = WrappedBy(i)
    BY DEF WrappedBy
  <2>2. Unwritten' = Unwritten \cup
                     {[event |-> record.event, received_at |-> record.received_at]}
    <3> HIDE DEF record
    <3> QED BY <1>1 DEF Unwritten
  <2> QED
    BY <1>1, <2>1, <2>2 DEF Stored
<1>9. UnreadIsExposed'
  BY <1>1, <1>8 DEF IInv, UnreadIsExposed
<1>10. \A j \in Invocation : WrappedBy(j)' = WrappedBy(j)
  BY <1>4 DEF WrappedBy
<1>11. TakenIsSafe'
  BY <1>1, <1>4, <1>8, <1>10 DEF IInv, TakenIsSafe, At
<1>12. AcceptedIsSafe'
  BY <1>1, <1>8 DEF IInv, AcceptedIsSafe
<1> QED
  BY <1>5, <1>6, <1>7, <1>9, <1>11, <1>12 DEF IInv

-----------------------------------------------------------------------------
(* Steps of the world outside.                                             *)

\* No call is touched, and nothing that was safe is lost.
LEMMA OutsideStep ==
  ASSUME IInv, TypeOK', PutInTime', WrappedInTime', UnreadIsExposed',
         UNCHANGED <<call, accepted>>,
         Unwritten \subseteq Unwritten' \cup Stored' \cup exposed',
         Stored \subseteq Stored', exposed \subseteq exposed'
  PROVE  IInv'
<1>1. GoodRequestIsNotDropped'
  BY DEF IInv, GoodRequestIsNotDropped, At
<1>2. TakenIsSafe'
  BY DEF IInv, TakenIsSafe, At, WrappedBy
<1>3. AcceptedIsSafe'
  BY DEF IInv, AcceptedIsSafe
<1> QED
  BY <1>1, <1>2, <1>3 DEF IInv

LEMMA TickStep == ASSUME IInv, Tick PROVE IInv'
<1>1. /\ now \in Time /\ now' \in Time /\ now' = now + 1
      /\ UNCHANGED <<stream_up, firehose_up, enabled, call, bronze, posts, accepted, exposed>>
  BY IngestionAssumption DEF Tick, IInv, TypeOK, Time
<1>2. \A record \in stream : record \in stream' <=> now < record.put_at + StreamRetention
  BY DEF Tick
<1>3. stream' \subseteq stream
  BY DEF Tick
<1>4. TypeOK'
  BY <1>1, <1>3 DEF IInv, TypeOK
<1>5. WrappedInTime'
  <2> SUFFICES ASSUME NEW i \in Invocation, At(i, "put")
               PROVE  /\ Acceptable(call[i].request)
                      /\ call[i].received_at <= now'
                      /\ now' <= call[i].received_at + LambdaTimeout
    BY <1>1 DEF WrappedInTime, At
  <2>1. now < call[i].received_at + LambdaTimeout
    BY DEF Tick, InTime
  <2>2. call[i].received_at \in Time /\ call[i].received_at <= now /\ Acceptable(call[i].request)
    BY DEF IInv, TypeOK, WrappedInTime
  <2> QED
    BY <1>1, <2>1, <2>2, IngestionAssumption DEF Time
<1>6. PutInTime'
  BY <1>1, <1>2, <1>3, IngestionAssumption DEF IInv, PutInTime, TypeOK, Time
<1>7. Stored' = Stored
  BY <1>1 DEF Stored
<1>8. firehose_up => stream' = stream
  BY <1>2, <1>3 DEF Tick, InTime
<1>9. Unwritten' \subseteq Unwritten
  BY <1>3 DEF Unwritten
<1>10. UnreadIsExposed'
  BY <1>1, <1>7, <1>9 DEF IInv, UnreadIsExposed
<1>11. Unwritten \subseteq Unwritten' \cup Stored' \cup exposed'
  BY <1>1, <1>7, <1>8 DEF IInv, UnreadIsExposed, Unwritten
<1> QED
  BY <1>1, <1>4, <1>5, <1>6, <1>7, <1>10, <1>11, OutsideStep

\* What leaves the stream is in Bronze.
LEMMA DeliverStep ==
  ASSUME IInv, NEW record \in stream, Deliver(record) PROVE IInv'
<1> DEFINE written == [event |-> record.event, received_at |-> record.received_at,
                       stored_at |-> now]
<1>1. /\ bronze' = bronze \cup {written} /\ stream' \in {stream, stream \ {record}}
      /\ firehose_up
      /\ UNCHANGED <<now, stream_up, firehose_up, enabled, call, posts, accepted, exposed>>
  BY DEF Deliver
<1>2. TypeOK'
  BY <1>1 DEF IInv, TypeOK
<1>3. stream' \subseteq stream
  BY <1>1
<1>4. PutInTime' /\ WrappedInTime' /\ UnreadIsExposed'
  BY <1>1, <1>3 DEF IInv, PutInTime, WrappedInTime, UnreadIsExposed, At
<1>5. Stored \subseteq Stored'
  BY <1>1 DEF Stored
<1>6. [event |-> record.event, received_at |-> record.received_at] \in Stored'
  BY <1>1 DEF Stored
<1>7. Unwritten \subseteq Unwritten' \cup Stored' \cup exposed'
  BY <1>1, <1>6 DEF Unwritten
<1> QED
  BY <1>1, <1>2, <1>4, <1>5, <1>7, OutsideStep

\* While there is no Firehose the stream may go: nothing in it is relied upon.
LEMMA StreamingStep ==
  ASSUME IInv,
         CreateStream \/ CreateFirehose \/ Enable \/ Disable \/ DestroyFirehose
           \/ DestroyStream
  PROVE  IInv'
<1>1. /\ UNCHANGED <<now, call, bronze, posts, accepted>> /\ stream' \subseteq stream
      /\ stream_up' \in BOOLEAN /\ firehose_up' \in BOOLEAN /\ enabled' \in BOOLEAN
  BY DEF IInv, TypeOK, CreateStream, CreateFirehose, Enable, Disable, DestroyFirehose,
     DestroyStream
<1>2. Stored' = Stored /\ Unwritten' \subseteq Unwritten
  BY <1>1 DEF Stored, Unwritten
<1>3. Unwritten \subseteq Record
  BY DEF IInv, TypeOK, Unwritten, Record
<1>4. exposed' \in {exposed, exposed \cup (Unwritten \ Stored)}
  BY DEF CreateStream, CreateFirehose, Enable, Disable, DestroyFirehose, DestroyStream
<1>5. TypeOK'
  BY <1>1, <1>3, <1>4 DEF IInv, TypeOK
<1>6. PutInTime' /\ WrappedInTime'
  BY <1>1 DEF IInv, PutInTime, WrappedInTime, At
<1>7. ~firehose_up' => (firehose_up /\ DestroyFirehose) \/ ~firehose_up
  BY DEF CreateStream, CreateFirehose, Enable, Disable, DestroyStream
<1>8. UnreadIsExposed'
  BY <1>2, <1>4, <1>7 DEF IInv, UnreadIsExposed, DestroyFirehose
<1>9. stream' = stream \/ ~firehose_up
  BY DEF CreateStream, CreateFirehose, Enable, Disable, DestroyFirehose, DestroyStream
<1>10. Unwritten \subseteq Unwritten' \cup Stored' \cup exposed'
  BY <1>2, <1>4, <1>9 DEF IInv, UnreadIsExposed, Unwritten
<1> QED
  BY <1>1, <1>2, <1>4, <1>5, <1>6, <1>8, <1>10, OutsideStep

LEMMA StutterStep == ASSUME IInv, UNCHANGED vars PROVE IInv'
<1>1. Unwritten' = Unwritten /\ Stored' = Stored
  BY DEF vars, Unwritten, Stored
<1>2. TypeOK' /\ PutInTime' /\ WrappedInTime' /\ UnreadIsExposed'
  BY <1>1 DEF vars, IInv, TypeOK, PutInTime, WrappedInTime, UnreadIsExposed, At
<1> QED
  BY <1>1, <1>2, OutsideStep DEF vars

LEMMA StepIInv == IInv /\ [Next]_vars => IInv'
<1> SUFFICES ASSUME IInv, [Next]_vars PROVE IInv'
  OBVIOUS
<1>1. CASE \E i \in Invocation, request \in Request : Post(i, request)
  BY <1>1, PostStep
<1>2. CASE \E i \in Invocation : Invoke(i)
  BY <1>2, RefuseStep, WrapStep, PutStep, AcknowledgeStep, RaiseStep DEF Invoke
<1>3. CASE \E record \in stream : Deliver(record)
  BY <1>3, DeliverStep
<1>4. CASE Tick
  BY <1>4, TickStep
<1>5. CASE CreateStream \/ CreateFirehose \/ Enable \/ Disable \/ DestroyFirehose
             \/ DestroyStream
  BY <1>5, StreamingStep
<1>6. CASE UNCHANGED vars
  BY <1>6, StutterStep
<1> QED
  BY <1>1, <1>2, <1>3, <1>4, <1>5, <1>6 DEF Next

LEMMA InductiveInvariant == Spec => []IInv
  BY InitIInv, StepIInv, PTL DEF Spec

-----------------------------------------------------------------------------
(* The theorems.                                                           *)

\* Only records of the contract are ever in the stream or in Bronze, and no
\* call is in a stage the handler does not have.
THEOREM IngestionTypeCorrect == Spec => []TypeOK
<1>1. IInv => TypeOK
  BY DEF IInv
<1> QED BY <1>1, InductiveInvariant, PTL

\* A 202 hides no loss but that of a record that was in a stream without a
\* Firehose, however many invocations, puts and deliveries there are.
THEOREM AcceptedIsSafeHolds == Spec => []AcceptedIsSafe
<1>1. IInv => AcceptedIsSafe
  BY DEF IInv
<1> QED BY <1>1, InductiveInvariant, PTL

\* An event that may be stored is never answered 400 or 401.
THEOREM GoodRequestHolds == Spec => []GoodRequestIsNotDropped
<1>1. IInv => GoodRequestIsNotDropped
  BY DEF IInv
<1> QED BY <1>1, InductiveInvariant, PTL
-----------------------------------------------------------------------------
(* Ingestion implements BronzeFeed.                                        *)

FeedBronze == [record \in bronze |-> record]

LEMMA FeedInit == Init => Feed!Init
  BY DEF Init, Feed!Init

\* A record written for the first time is a delivery of the feed: its put was
\* in time and the stream still holds it.
LEMMA DeliverFeeds ==
  ASSUME IInv, NEW record \in stream, Deliver(record)
  PROVE  Feed!Next \/ UNCHANGED <<now, FeedBronze>>
<1> DEFINE written == [event |-> record.event, received_at |-> record.received_at,
                       stored_at |-> now]
<1>1. bronze' = bronze \cup {written} /\ UNCHANGED now
  BY DEF Deliver
<1>2. /\ record.event \in AcceptableEvent /\ record.received_at \in Time
      /\ record.put_at \in Time /\ now \in Time
  BY DEF IInv, TypeOK
<1>3. /\ record.received_at <= record.put_at /\ record.put_at <= now
      /\ record.put_at <= record.received_at + LambdaTimeout
      /\ now <= record.put_at + StreamRetention
  BY DEF IInv, PutInTime
<1>4. /\ record.received_at <= now
      /\ now <= record.received_at + (LambdaTimeout + StreamRetention)
  BY <1>2, <1>3, IngestionAssumption DEF Time
<1>5. CASE written \in bronze
  BY <1>1, <1>5 DEF FeedBronze
<1>6. CASE written \notin bronze
  <2>1. DOMAIN FeedBronze = bronze
    BY DEF FeedBronze
  <2>2. FeedBronze' = [i \in DOMAIN FeedBronze \cup {written} |->
                         IF i = written
                         THEN [event |-> record.event, received_at |-> record.received_at,
                               stored_at |-> now]
                         ELSE FeedBronze[i]]
    BY <1>1, <2>1 DEF FeedBronze
  <2>3. Feed!Deliver(written, record.event, record.received_at)
    BY <1>1, <1>4, <1>6, <2>1, <2>2 DEF Feed!Deliver, FeedBronze
  <2>4. written \in [event : AcceptableEvent, received_at : Time, stored_at : Time]
    BY <1>2
  <2> QED
    BY <1>2, <2>3, <2>4 DEF Feed!Next, Time
<1> QED
  BY <1>5, <1>6

LEMMA StepFeeds ==
  IInv /\ [Next]_vars => Feed!Next \/ UNCHANGED <<now, FeedBronze>>
<1> SUFFICES ASSUME IInv, [Next]_vars
             PROVE  Feed!Next \/ UNCHANGED <<now, FeedBronze>>
  OBVIOUS
<1>1. CASE \E record \in stream : Deliver(record)
  BY <1>1, DeliverFeeds
<1>2. CASE Tick
  BY <1>2 DEF Tick, Feed!Next, Feed!Tick
<1>3. CASE UNCHANGED <<now, bronze>>
  BY <1>3 DEF FeedBronze
<1>4. CASE \E i \in Invocation, request \in Request : Post(i, request)
  BY <1>3, <1>4 DEF Post
<1>5. CASE \E i \in Invocation : Invoke(i)
  BY <1>3, <1>5 DEF Invoke, Refuse, Answer, Wrap, Put, Acknowledge, Raise
<1>6. CASE CreateStream \/ CreateFirehose \/ Enable \/ Disable \/ DestroyFirehose
             \/ DestroyStream
  BY <1>3, <1>6 DEF CreateStream, CreateFirehose, Enable, Disable, DestroyFirehose,
     DestroyStream
<1>7. CASE UNCHANGED vars
  BY <1>3, <1>7 DEF vars
<1> QED
  BY <1>1, <1>2, <1>4, <1>5, <1>6, <1>7 DEF Next

\* However its puts and deliveries are repeated or cut short, ingestion brings
\* Bronze nothing that the rebuild is not built for.
THEOREM IngestionImplementsFeed == Spec => ImplementsBronzeFeed
<1>1. IInv /\ [Next]_vars => [Feed!Next]_<<now, FeedBronze>>
  BY StepFeeds
<1> QED
  BY <1>1, FeedInit, InductiveInvariant, PTL
     DEF Spec, ImplementsBronzeFeed, Feed!Spec, FeedBronze
=============================================================================
