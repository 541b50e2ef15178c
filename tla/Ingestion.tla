----------------------------- MODULE Ingestion -----------------------------
(***************************************************************************)
(* From the gateway's POST to a Bronze object.                             *)
(*                                                                         *)
(* Concurrent invocations of the Lambda check a request, wrap its event    *)
(* with the time of receipt and put the record into the Kinesis stream,    *)
(* from which Firehose writes it to Bronze.  The gateway may post anything *)
(* any number of times.  A put may take effect and its answer be lost, and *)
(* the client library may send it again; Firehose writes a record at least *)
(* once.  terraform apply turns streaming on and off in steps that the     *)
(* invocations run between: the Lambda waits for the stream alone, and     *)
(* Firehose is created after it and exposed before it.                   *)
(***************************************************************************)
EXTENDS EventContract, Integers

CONSTANTS Request,          \* the requests the gateway may post
          Invocation,       \* the Lambda's reserved concurrency
          StreamRetention,  \* retention_period of the stream
          LambdaTimeout,    \* timeout of the function
          BronzeRetention,  \* age at which a Bronze object may expire
          MaxRequestBody,   \* _MAX_REQUEST_BODY_BYTES
          MaxPosts,         \* bound: requests the gateway posts
          Horizon           \* bound: last clock tick

ASSUME IngestionAssumption ==
  /\ Request # {}
  /\ StreamRetention \in Nat /\ LambdaTimeout \in Nat
  /\ BronzeRetention \in Nat /\ MaxRequestBody \in Nat
  /\ MaxPosts \in Nat /\ Horizon \in Nat

VARIABLES
  now,           \* the clock
  stream_up,     \* the Kinesis stream exists
  firehose_up,   \* the Firehose that reads it exists
  enabled,       \* STREAMING_ENABLED of the Lambda's environment
  call,          \* invocation -> the request it serves and how far it is
  stream,        \* records Firehose is not yet done with
  bronze,        \* records written: [event, received_at, stored_at]
  posts,         \* requests posted so far
  accepted,      \* history: records some invocation answered 202 for
  exposed        \* history: records that were in the stream without a
                 \* Firehose, and not since put with one

vars == <<now, stream_up, firehose_up, enabled, call, stream, bronze, posts, accepted, exposed>>

Time == 0 .. Horizon

-----------------------------------------------------------------------------
(* What a request must be, in the order of lambda_handler's checks.        *)

\* ALLOWED_SOURCE_TYPES_BY_CHANNEL
AllowedSourceTypes(channel) ==
  CASE channel = "turkiye_gateway" -> {"CONSENTED_PROD_PLAY", "CONTROLLED_SCENARIO"}
    [] channel = "scenario_generator" -> {"CONTROLLED_SCENARIO"}
    [] channel = "load_test_runner" -> {"LOAD_TEST"}

\* _is_authorized: one header of that name, any case, with the shared secret.
Authorized(request) == request.key = "right"

\* _decode_request_body, and json.loads on what it returns.
Decodes(request) ==
  /\ request.body \in {"text", "base64"}
  /\ request.size <= MaxRequestBody

\* prepare_bronze_record refuses the event of the request.
EventRefused(event) ==
  \/ ValidateEvent(event) # "none"
  \/ event.source_type \notin AllowedSourceTypes("turkiye_gateway")

\* The answer before any put, 0 when there is none.  The comparison of a secret
\* that is not ASCII, and nesting beyond the depth of Python's recursion, raise
\* what no except clause names.
Refusal(request) ==
  IF request.key = "not_ascii" THEN 500
  ELSE IF ~Authorized(request) THEN 401
  ELSE IF ~enabled THEN 503
  ELSE IF ~Decodes(request) \/ request.json = "malformed" THEN 400
  ELSE IF request.json = "too_deep" THEN 500
  ELSE IF EventRefused(request.event) THEN 400
  ELSE 0

Acceptable(request) ==
  /\ Authorized(request) /\ Decodes(request)
  /\ request.json \notin {"malformed", "too_deep"}
  /\ ~EventRefused(request.event)

AcceptableEvent == {request.event : request \in {q \in Request : Acceptable(q)}}

-----------------------------------------------------------------------------
(* One invocation.                                                         *)

\* received_at is set from the wrapping on; taken: the stream has the record.
Stage == {"idle", "posted", "put", "answered"}
Status == {0, 202, 400, 401, 500, 503}
Call(stage, request, status) ==
  [stage |-> stage, request |-> request, received_at |-> 0, taken |-> FALSE,
   status |-> status]

At(i, stage) == call[i].stage = stage

WrappedBy(i) == [event |-> call[i].request.event, received_at |-> call[i].received_at]

\* The invocation keeps nothing of the record it may have put.
Answer(i, status) == call' = [call EXCEPT ![i] = Call("answered", call[i].request, status)]

\* An invocation that has answered is free for the next request.
Post(i, request) ==
  /\ At(i, "idle") \/ At(i, "answered")
  /\ posts < MaxPosts
  /\ posts' = posts + 1
  /\ call' = [call EXCEPT ![i] = Call("posted", request, 0)]
  /\ UNCHANGED <<now, stream_up, firehose_up, enabled, stream, bronze, accepted, exposed>>

Refuse(i) ==
  /\ At(i, "posted")
  /\ Refusal(call[i].request) # 0
  /\ Answer(i, Refusal(call[i].request))
  /\ UNCHANGED <<now, stream_up, firehose_up, enabled, stream, bronze, posts, accepted, exposed>>

\* Mutant: the contract is not checked before the record is built.
WrapUnchecked(i) ==
  /\ At(i, "posted")
  /\ Authorized(call[i].request) /\ enabled
  /\ call' = [call EXCEPT ![i].stage = "put", ![i].received_at = now]
  /\ UNCHANGED <<now, stream_up, firehose_up, enabled, stream, bronze, posts, accepted, exposed>>

\* build_bronze_record stamps the time of receipt, before the put.
Wrap(i) ==
  /\ At(i, "posted")
  /\ Refusal(call[i].request) = 0
  /\ call' = [call EXCEPT ![i].stage = "put", ![i].received_at = now]
  /\ UNCHANGED <<now, stream_up, firehose_up, enabled, stream, bronze, posts, accepted, exposed>>

\* put_record takes effect, for the first time or once more.
Put(i) ==
  /\ At(i, "put")
  /\ stream_up
  /\ stream' = stream \cup {[event |-> call[i].request.event,
                             received_at |-> call[i].received_at, put_at |-> now]}
  /\ exposed' = IF firehose_up THEN exposed \ {WrappedBy(i)}
                ELSE exposed \cup {WrappedBy(i)}
  /\ call' = [call EXCEPT ![i].taken = TRUE]
  /\ UNCHANGED <<now, stream_up, firehose_up, enabled, bronze, posts, accepted>>

\* Mutant: the answer does not wait for the put.
AcknowledgeAtOnce(i) ==
  /\ At(i, "put")
  /\ Answer(i, 202)
  /\ accepted' = accepted \cup {WrappedBy(i)}
  /\ UNCHANGED <<now, stream_up, firehose_up, enabled, stream, bronze, posts, exposed>>

Acknowledge(i) ==
  /\ At(i, "put")
  /\ call[i].taken
  /\ Answer(i, 202)
  /\ accepted' = accepted \cup {WrappedBy(i)}
  /\ UNCHANGED <<now, stream_up, firehose_up, enabled, stream, bronze, posts, exposed>>

\* Mutant: what put_record raises is taken for a fault of the request.
RaiseAsInvalid(i) ==
  /\ At(i, "put")
  /\ Answer(i, 400)
  /\ UNCHANGED <<now, stream_up, firehose_up, enabled, stream, bronze, posts, accepted, exposed>>

\* Mutant: the put is repeated until there is a stream.
RaiseWithStream(i) ==
  /\ At(i, "put")
  /\ stream_up
  /\ Answer(i, 500)
  /\ UNCHANGED <<now, stream_up, firehose_up, enabled, stream, bronze, posts, accepted, exposed>>

\* put_record raises: no such stream, throttled, not permitted, no answer.  No
\* except clause names it, nor the end of the function's time.
Raise(i) ==
  /\ At(i, "put")
  /\ Answer(i, 500)
  /\ UNCHANGED <<now, stream_up, firehose_up, enabled, stream, bronze, posts, accepted, exposed>>

-----------------------------------------------------------------------------
(* The clock, Firehose and terraform apply.                                *)

\* The runtime ends an invocation in time; a Firehose is never behind by the
\* retention of the stream.
InTime ==
  /\ \A i \in Invocation : At(i, "put") => now < call[i].received_at + LambdaTimeout
  /\ firehose_up => \A record \in stream : now < record.put_at + StreamRetention

\* Without one, the stream drops what is too old.
Tick ==
  /\ now < Horizon
  /\ InTime
  /\ now' = now + 1
  /\ stream' = {record \in stream : now < record.put_at + StreamRetention}
  /\ UNCHANGED <<stream_up, firehose_up, enabled, call, bronze, posts, accepted, exposed>>

Stored == {[event |-> b.event, received_at |-> b.received_at] : b \in bronze}

Unwritten == {[event |-> r.event, received_at |-> r.received_at] : r \in stream}

\* A record is written, and Firehose may lose track of having written it.
Deliver(record) ==
  /\ firehose_up /\ record \in stream
  /\ bronze' = bronze \cup {[event |-> record.event, received_at |-> record.received_at,
                             stored_at |-> now]}
  /\ stream' \in {stream, stream \ {record}}
  /\ UNCHANGED <<now, stream_up, firehose_up, enabled, call, posts, accepted, exposed>>

\* enable_streaming = true: the stream first, since the Lambda names it.
CreateStream ==
  /\ ~stream_up
  /\ stream_up' = TRUE
  /\ UNCHANGED <<now, firehose_up, enabled, call, stream, bronze, posts, accepted, exposed>>

\* It may start at the latest record of the stream or at the oldest.
CreateFirehose ==
  /\ stream_up /\ ~firehose_up
  /\ firehose_up' = TRUE
  /\ stream' \in {stream, {}}
  /\ UNCHANGED <<now, stream_up, enabled, call, bronze, posts, accepted, exposed>>

Enable ==
  /\ stream_up /\ ~enabled
  /\ enabled' = TRUE
  /\ UNCHANGED <<now, stream_up, firehose_up, call, stream, bronze, posts, accepted, exposed>>

\* enable_streaming = false: Firehose before the stream, the Lambda at any time.
Disable ==
  /\ enabled
  /\ enabled' = FALSE
  /\ UNCHANGED <<now, stream_up, firehose_up, call, stream, bronze, posts, accepted, exposed>>

DestroyFirehose ==
  /\ firehose_up
  /\ firehose_up' = FALSE
  /\ exposed' = exposed \cup (Unwritten \ Stored)
  /\ UNCHANGED <<now, stream_up, enabled, call, stream, bronze, posts, accepted>>

DestroyStream ==
  /\ stream_up /\ ~firehose_up
  /\ stream_up' = FALSE
  /\ stream' = {}
  /\ UNCHANGED <<now, firehose_up, enabled, call, bronze, posts, accepted, exposed>>

Init ==
  /\ now = 0
  /\ stream_up = FALSE
  /\ firehose_up = FALSE
  /\ enabled = FALSE
  /\ call = [i \in Invocation |->
               Call("idle", CHOOSE request \in Request : TRUE, 0)]
  /\ stream = {}
  /\ bronze = {}
  /\ posts = 0
  /\ accepted = {}
  /\ exposed = {}

Invoke(i) == Refuse(i) \/ Wrap(i) \/ Put(i) \/ Acknowledge(i) \/ Raise(i)

Next ==
  \/ \E i \in Invocation, request \in Request : Post(i, request)
  \/ \E i \in Invocation : Invoke(i)
  \/ \E record \in stream : Deliver(record)
  \/ Tick
  \/ CreateStream \/ CreateFirehose \/ Enable
  \/ Disable \/ DestroyFirehose \/ DestroyStream

Spec == Init /\ [][Next]_vars

\* An invocation comes to an end (the runtime sees to it), and Firehose writes
\* what it reads.  The gateway and terraform owe nothing.
Fairness ==
  /\ \A i \in Invocation :
       WF_vars(Refuse(i) \/ Wrap(i)) /\ WF_vars(Acknowledge(i) \/ Raise(i))
  /\ \A event \in AcceptableEvent, time \in Time :
       WF_vars(\E put_time \in Time :
                 Deliver([event |-> event, received_at |-> time, put_at |-> put_time]))

FairSpec == Spec /\ Fairness

-----------------------------------------------------------------------------
(* What must hold.                                                         *)

Record == [event : AcceptableEvent, received_at : Time]

TypeOK ==
  /\ now \in Time
  /\ stream_up \in BOOLEAN /\ firehose_up \in BOOLEAN /\ enabled \in BOOLEAN
  /\ call \in [Invocation -> [stage : Stage, request : Request, received_at : Time,
                              taken : BOOLEAN, status : Status]]
  /\ stream \subseteq [event : AcceptableEvent, received_at : Time, put_at : Time]
  /\ bronze \subseteq [event : AcceptableEvent, received_at : Time, stored_at : Time]
  /\ posts \in 0 .. MaxPosts
  /\ accepted \subseteq Record
  /\ exposed \subseteq Record

\* A 202 hides no loss (lambda_handler: "a success answer must not hide that
\* data is lost when there is no stream"): what was accepted is on its way or in
\* Bronze, or was in a stream with no Firehose to read it, which only turning
\* streaming on or off brings about.
AcceptedIsSafe == accepted \subseteq Unwritten \cup Stored \cup exposed

\* An event that may be stored is never refused for good: whatever state the
\* stream is in, its request gets no 400 or 401, on which a sender gives up.
GoodRequestIsNotDropped ==
  \A i \in Invocation :
    At(i, "answered") /\ Acceptable(call[i].request) => call[i].status \notin {400, 401}

\* However its puts and deliveries were repeated or cut short, Bronze receives
\* only contract events of the gateway's source types, between the time they
\* were received and the longest a call and the stream can hold them.
Feed == INSTANCE BronzeFeed WITH
          Event <- AcceptableEvent,
          Position <- [event : AcceptableEvent, received_at : Time, stored_at : Time],
          MaxDelay <- LambdaTimeout + StreamRetention,
          bronze <- [record \in bronze |-> record]

ImplementsBronzeFeed == Feed!Spec

\* Every request is answered, whatever becomes of the stream meanwhile.
EveryRequestIsAnswered ==
  \A i \in Invocation : At(i, "posted") ~> At(i, "answered")

\* Every accepted event reaches Bronze, unless it was exposed.
AcceptedIsStored ==
  \A record \in Record :
    record \in accepted ~> record \in Stored \cup exposed
=============================================================================
