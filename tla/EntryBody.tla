------------------------------ MODULE EntryBody ------------------------------
(***************************************************************************)
(* The upload of one extracted entry: the comparison or planning pass and  *)
(* the PUT attempts of s3/transfer/upload.rs, and the streamed body of     *)
(* each attempt in s3/archive/entry.rs.  A body starts at its first poll,  *)
(* when it spawns a producer task that reads the entry, replaces markers   *)
(* if there are any, cuts the output into frames and sends them through a  *)
(* bounded channel, always one frame behind: the last one is only sent     *)
(* when the whole entry has been validated and its claims are released.    *)
(* The HTTP client, which may go on with the body of an attempt after its  *)
(* response, may stop polling once it has the declared length.             *)
(*                                                                         *)
(* A digest is the content it was computed of.  CRC32 is a digest of one   *)
(* bit, so that contents can collide.  Lengths count symbols.  The writes  *)
(* of the replacement reach its pipe as they are emitted; their coalescing *)
(* is left out.                                                            *)
(*                                                                         *)
(* Operators named ...Slip are not part of the model: each is the          *)
(* definition that follows it with one plausible mistake.                  *)
(***************************************************************************)
EXTENDS MarkerReplacement

CONSTANTS
  Entry,         \* the entries to try: see EntryAssumption
  Frame,         \* ZIP_ENTRY_BODY_CHUNK_BYTES
  ChannelFrames, \* ZIP_ENTRY_BODY_PIPE_CHUNKS
  SpoolLimit,    \* comparison_spool_limit_bytes
  OutputLimit,   \* S3_SINGLE_PUT_LIMIT
  MaxAttempts    \* max_attempts, at most

\* declared is the content the central directory describes, stream what the
\* archive decodes to, header whether the local header agrees with the plan,
\* trusted whether there is a catalog entry, listed what the destination holds,
\* and attempts how often its PUT may be tried.
ASSUME EntryAssumption ==
  /\ {Frame, ChannelFrames, MaxAttempts} \subseteq Nat \ {0}
  /\ {SpoolLimit, OutputLimit} \subseteq Nat
  /\ \A e \in Entry :
       /\ DOMAIN e = {"declared", "stream", "header", "marker", "trusted", "listed", "attempts"}
       /\ {e.declared, e.stream} \subseteq Seq(Symbol)
       /\ {e.header, e.marker, e.trusted} \subseteq BOOLEAN
       /\ e.listed \in {"None", "Same", "Other"} /\ e.attempts \in 1 .. MaxAttempts

VARIABLES
  entry,   \* the entry being uploaded
  task,    \* where its task is
  tries,   \* PUT attempts made
  length,  \* content_length
  spooled, \* the payload is a Bytes payload
  planned, \* claims of the entry that wait for a reader to take them up
  etag,    \* UploadBodyState.etag_md5, << >> while unset
  invalid, \* UploadBodyState.validation_error is set
  current, \* the body of the request in flight, 0 while it is not polled
  bodies,  \* bodies polled so far (body_attempts)
  body,    \* [attempt -> ReceiverBody]
  prod,    \* [attempt -> producer task]
  chan,    \* [attempt -> frames in the channel]
  mark,    \* attempt_state
  snap     \* attempt_snapshot, its attempt 0 for None

payloadVars == <<entry, length, spooled>>
taskVars == <<task, tries, planned>>
vars == <<payloadVars, taskVars, etag, invalid, current, bodies, body, prod, chan, mark, snap>>

Attempt == 1 .. MaxAttempts

\* A body: what it has emitted, whether the client still has it, whether it is
\* complete, and the error it gave.
NoBody == [got |-> <<>>, open |-> FALSE, complete |-> FALSE, error |-> "None"]

\* A producer: the symbols read, the input carried over, the output on its way
\* to the pipe, the pipe, whether the replacement is over, all that was output,
\* the frame being filled, the frame held back, the frame being sent, whether
\* it holds the claims, and whether it has been told to abort.
NoProducer ==
  [pc |-> "None", read |-> 0, carry |-> <<>>, out |-> <<>>, pipe |-> <<>>, over |-> FALSE,
   made |-> <<>>, frame |-> <<>>, held |-> <<>>, send |-> <<>>, claim |-> FALSE, abort |-> FALSE]

Init ==
  /\ entry \in Entry
  /\ task = "Prepare" /\ tries = 0 /\ length = 0 /\ spooled = FALSE /\ planned = TRUE
  /\ etag = <<>> /\ invalid = FALSE /\ current = 0 /\ bodies = 0
  /\ body = [k \in Attempt |-> NoBody]
  /\ prod = [k \in Attempt |-> NoProducer]
  /\ chan = [k \in Attempt |-> <<>>]
  /\ mark = [attempt |-> 0, stage |-> "AwaitingFirstPoll"]
  /\ snap = [attempt |-> 0, emitted |-> 0, dropped |-> FALSE]

-----------------------------------------------------------------------------
(* Validation *)

Crc(s) == Cardinality({i \in 1 .. Len(s) : s[i] = "b"}) % 2

\* validate_zip_entry_output and validate_trusted_md5.
ValidSlip(e) == Len(e.stream) = Len(e.declared) /\ Crc(e.stream) = Crc(e.declared)

Valid(e) ==
  /\ Len(e.stream) = Len(e.declared) /\ Crc(e.stream) = Crc(e.declared)
  /\ e.trusted => e.stream = e.declared

TooLong(symbols) == symbols > Len(entry.declared)

\* OnceLock::set: the first digest stays.
RecordEtag(s) == etag' = IF etag = <<>> THEN <<s>> ELSE etag

-----------------------------------------------------------------------------
(* The comparison or planning pass *)

Output(e) == IF e.marker THEN Emitted(e.stream, TRUE).out ELSE e.stream

Compares(e) == e.marker \/ (~e.trusted /\ e.listed = "Same")

\* Without a pass, the body streams the entry as declared.
Unprepared ==
  /\ task = "Prepare" /\ ~Compares(entry)
  /\ task' = "Between" /\ length' = Len(entry.declared)
  /\ UNCHANGED <<entry, spooled, planned, tries, etag, invalid, current, bodies, body, prod,
                 chan, mark, snap>>

\* A spooled payload is retained for a replay that never happens.
RetainedSlip(spool) == TRUE

Retained(spool) == ~spool

\* The pass reads the whole entry and may spool its output; the destination's
\* ETag may turn out to be the one computed.
Prepared ==
  /\ task = "Prepare" /\ Compares(entry)
  /\ entry.header /\ Valid(entry) /\ Len(Output(entry)) <= OutputLimit
  /\ \/ entry.listed # "None" /\ task' = "Skipped" /\ planned' = FALSE
        /\ UNCHANGED <<length, spooled, etag>>
     \/ /\ task' = "Between"
        /\ length' = Len(Output(entry))
        /\ spooled' = (Len(Output(entry)) <= SpoolLimit)
        /\ planned' = Retained(Len(Output(entry)) <= SpoolLimit)
        /\ RecordEtag(Output(entry))
  /\ UNCHANGED <<entry, tries, invalid, current, bodies, body, prod, chan, mark, snap>>

PrepareFails ==
  /\ task = "Prepare" /\ Compares(entry)
  /\ task' = "Failed" /\ planned' = FALSE
  /\ UNCHANGED <<payloadVars, tries, etag, invalid, current, bodies, body, prod, chan, mark, snap>>

-----------------------------------------------------------------------------
(* The producer of body k *)

Update(k, p) == prod' = [prod EXCEPT ![k] = p]

\* record_producer_stage and record_body stages: only of the attempt in the state.
MarkedSlip(k, stage) == [attempt |-> k, stage |-> stage]

Marked(k, stage) == IF mark.attempt = k THEN [mark EXCEPT !.stage = stage] ELSE mark

\* The error's kind is lost on its way out of the producer.
InvalidAtSlip(k, bad) == FALSE

\* The validation error is recorded before the error is sent.
InvalidAt(k, bad) == bad

\* The future of the producer returns an error, which drops its reader.
Fail(k, bad) ==
  /\ Update(k, [prod[k] EXCEPT !.pc = "Error", !.claim = FALSE, !.send = <<bad>>])
  /\ mark' = Marked(k, "BodyError")
  /\ invalid' = (invalid \/ InvalidAt(k, bad))
  /\ UNCHANGED <<etag, chan>>

Running(k) == prod[k].pc = "Run" /\ prod[k].send = <<>>

OpenFails(k) == Running(k) /\ prod[k].read = 0 /\ ~entry.header /\ Fail(k, TRUE)

\* The source fails, or the producer panics.
ReadFails(k) == Running(k) /\ prod[k].claim /\ Fail(k, FALSE)

\* A frame that is full, or the last one, is held back, and the one held so far
\* is sent.
Shift(p) == [p EXCEPT !.frame = <<>>, !.held = p.frame,
                      !.send = IF p.held = <<>> THEN <<>> ELSE <<p.held>>]

Filled(p, s) ==
  LET q == [p EXCEPT !.frame = @ \o s] IN IF Len(q.frame) = Frame THEN Shift(q) ELSE q

Least(a, b) == IF a <= b THEN a ELSE b

Fetched(p, n) == SubSeq(entry.stream, p.read + 1, p.read + n)

\* One read of the source straight into the frame.
ReadFrame(k) ==
  LET p == prod[k] IN
  /\ Running(k) /\ ~entry.marker /\ entry.header
  /\ \E n \in 1 .. Least(Frame - Len(p.frame), Len(entry.stream) - p.read) :
       IF TooLong(p.read + n) THEN Fail(k, TRUE)
       ELSE /\ Update(k, Filled([p EXCEPT !.read = @ + n], Fetched(p, n)))
            /\ UNCHANGED <<etag, invalid, chan, mark>>

\* One read of the source through the replacement, whose writes must all have
\* reached the pipe before the next read.
Replace(k) ==
  LET p == prod[k] IN
  /\ Running(k) /\ entry.marker /\ entry.header /\ ~p.over /\ p.out = <<>>
  /\ \E n \in 0 .. Len(entry.stream) - p.read :
       LET eof     == n = 0
           input   == p.carry \o Fetched(p, n)
           written == Emitted(input, eof).out
       IN /\ eof <=> p.read = Len(entry.stream)
          /\ IF TooLong(p.read + n) \/ Len(p.made \o written) > OutputLimit THEN Fail(k, TRUE)
             ELSE /\ Update(k, [p EXCEPT !.read = @ + n, !.carry = Carry(input, eof),
                                         !.out = written, !.made = @ \o written, !.over = eof])
                  /\ UNCHANGED <<etag, invalid, chan, mark>>

\* write_all makes progress as the pipe has room.
WritePipe(k) ==
  LET p == prod[k]
      n == Least(Len(p.out), 2 * Frame - Len(p.pipe))
  IN /\ p.pc = "Run" /\ n > 0
     /\ Update(k, [p EXCEPT !.out = SubSeq(@, n + 1, Len(@)), !.pipe = @ \o SubSeq(p.out, 1, n)])
     /\ UNCHANGED <<etag, invalid, chan, mark>>

\* The replacement is over: the input is validated and the output measured, and
\* the reader is dropped with its claims.
ReplaceEnds(k) ==
  LET p == prod[k] IN
  /\ p.pc = "Run" /\ p.over /\ p.claim /\ p.out = <<>>
  /\ IF ~Valid(entry) \/ Len(p.made) # length THEN Fail(k, TRUE)
     ELSE Update(k, [p EXCEPT !.claim = FALSE]) /\ UNCHANGED <<etag, invalid, chan, mark>>

ForwardPipe(k) ==
  LET p == prod[k]
      n == Least(Frame - Len(p.frame), Len(p.pipe))
  IN /\ Running(k) /\ n > 0
     /\ Update(k, Filled([p EXCEPT !.pipe = SubSeq(@, n + 1, Len(@))], SubSeq(p.pipe, 1, n)))
     /\ UNCHANGED <<etag, invalid, chan, mark>>

\* The writing end of the pipe is never dropped.
EndOfOutputSlip(p) == ~entry.marker /\ p.read = Len(entry.stream)

EndOfOutput(p) ==
  IF entry.marker THEN p.over /\ ~p.claim /\ p.pipe = <<>> ELSE p.read = Len(entry.stream)

\* The output has ended: what is in the frame becomes the one held back.
LastFrame(k) ==
  /\ Running(k) /\ entry.header /\ EndOfOutput(prod[k]) /\ prod[k].frame # <<>>
  /\ Update(k, Shift(prod[k]))
  /\ UNCHANGED <<etag, invalid, chan, mark>>

\* The claims of the reader go when the producer ends.
HandshakeSlip(p) == p.claim

Handshake(p) == FALSE

\* All is sent but the last frame: validation, digest, release of the claims.
Finish(k) ==
  LET p == prod[k]
      s == IF entry.marker THEN p.made ELSE entry.stream
  IN /\ Running(k) /\ entry.header /\ EndOfOutput(p) /\ p.frame = <<>>
     /\ IF IF entry.marker THEN etag \notin {<<>>, <<s>>} ELSE ~Valid(entry)
        THEN Fail(k, TRUE)
        ELSE /\ Update(k, [p EXCEPT !.pc = "Last", !.claim = Handshake(p)])
             /\ RecordEtag(s)
             /\ mark' = Marked(k, "FinalFrameReady")
             /\ UNCHANGED <<invalid, chan>>

Room(k) == body[k].open /\ Len(chan[k]) < ChannelFrames

Sent(k, kind, data) == chan' = [chan EXCEPT ![k] = Append(@, [kind |-> kind, data |-> data])]

SendFrame(k) ==
  LET p == prod[k] IN
  /\ p.pc = "Run" /\ p.send # <<>>
  /\ \/ Room(k) /\ Sent(k, "Data", p.send[1]) /\ Update(k, [p EXCEPT !.send = <<>>])
        /\ UNCHANGED <<mark, invalid, etag>>
     \/ ~body[k].open /\ entry.marker /\ Fail(k, FALSE)
     \/ /\ ~body[k].open /\ ~entry.marker
        /\ Update(k, [p EXCEPT !.pc = "End", !.claim = FALSE])
        /\ mark' = Marked(k, "ReceiverClosed")
        /\ UNCHANGED <<chan, invalid, etag>>

SendLast(k) ==
  LET p == prod[k] IN
  /\ p.pc = "Last"
  /\ \/ Room(k) /\ Sent(k, IF p.held = <<>> THEN "Complete" ELSE "Final", p.held)
     \/ ~body[k].open /\ UNCHANGED chan
  /\ Update(k, [p EXCEPT !.pc = "Sent"])
  /\ UNCHANGED <<etag, invalid, mark>>

Return(k) ==
  /\ prod[k].pc = "Sent"
  /\ Update(k, [prod[k] EXCEPT !.pc = "End", !.claim = FALSE])
  /\ mark' = Marked(k, "Complete")
  /\ UNCHANGED <<etag, invalid, chan>>

SendError(k) ==
  LET p == prod[k] IN
  /\ p.pc = "Error"
  /\ \/ Room(k) /\ Sent(k, IF p.send[1] THEN "Invalid" ELSE "Other", <<>>)
     \/ ~body[k].open /\ UNCHANGED chan
  /\ Update(k, [p EXCEPT !.pc = "End"])
  /\ UNCHANGED <<etag, invalid, mark>>

\* The abort takes effect at an await.
Aborted(k) ==
  /\ prod[k].abort /\ prod[k].pc \in {"Run", "Last", "Error"}
  /\ Update(k, [prod[k] EXCEPT !.pc = "End", !.claim = FALSE])
  /\ UNCHANGED <<etag, invalid, chan, mark>>

Produce(k) ==
  /\ \/ OpenFails(k) \/ ReadFrame(k) \/ Replace(k) \/ WritePipe(k)
     \/ ReplaceEnds(k) \/ ForwardPipe(k) \/ LastFrame(k) \/ Finish(k)
     \/ SendFrame(k) \/ SendLast(k) \/ Return(k) \/ SendError(k) \/ Aborted(k)
  /\ UNCHANGED <<payloadVars, taskVars, current, bodies, body, snap>>

ProducerBreaks(k) ==
  ReadFails(k) /\ UNCHANGED <<payloadVars, taskVars, current, bodies, body, snap>>

-----------------------------------------------------------------------------
(* The body *)

\* The first poll starts the producer with the claims that wait, or with claims
\* added for the replay.
FirstPoll ==
  LET k == bodies + 1 IN
  /\ task = "Request" /\ current = 0 /\ ~spooled
  /\ bodies' = k /\ current' = k
  /\ planned' = FALSE
  /\ body' = [body EXCEPT ![k].open = TRUE]
  /\ prod' = [prod EXCEPT ![k].pc = "Run", ![k].claim = TRUE]
  /\ mark' = [attempt |-> k, stage |-> "ReadingSource"]
  /\ UNCHANGED <<payloadVars, task, tries, etag, invalid, chan, snap>>

\* publish_attempt: a snapshot is kept only of the attempt in the state.
Published(k, got, dropped) ==
  IF mark.attempt = k
  THEN [attempt |-> k, emitted |-> Len(got), dropped |-> dropped]
  ELSE snap

\* Data that would reach the declared length is refused.
DataFits(left, n) == n < left

\* One frame from the channel.
PollFrame(k) ==
  LET frame == Head(chan[k])
      left  == length - Len(body[k].got)
      b     == [body[k] EXCEPT !.got = @ \o frame.data]
      Gives(new) == body' = [body EXCEPT ![k] = new]
      Errs(why) == Gives([body[k] EXCEPT !.error = why,
                                         !.complete = @ \/ frame.kind = "Complete"])
  IN /\ body[k].open /\ ~body[k].complete /\ body[k].error = "None" /\ chan[k] # <<>>
     /\ chan' = [chan EXCEPT ![k] = Tail(@)]
     /\ CASE frame.kind = "Data" /\ DataFits(left, Len(frame.data)) ->
               Gives(b) /\ UNCHANGED snap
          [] frame.kind = "Final" /\ Len(frame.data) = left /\ left > 0 ->
               Gives([b EXCEPT !.complete = TRUE]) /\ snap' = Published(k, b.got, FALSE)
          [] frame.kind = "Complete" /\ left = 0 ->
               Gives([b EXCEPT !.complete = TRUE]) /\ snap' = Published(k, b.got, FALSE)
          [] OTHER ->
               /\ Errs(IF frame.kind = "Invalid" THEN "Invalid" ELSE "Other")
               /\ snap' = Published(k, body[k].got, FALSE)
     /\ UNCHANGED <<payloadVars, taskVars, etag, invalid, current, bodies, prod, mark>>

\* The channel has closed without the last frame: the producer was aborted.
PollClosed(k) ==
  /\ body[k].open /\ ~body[k].complete /\ body[k].error = "None"
  /\ chan[k] = <<>> /\ prod[k].pc = "End"
  /\ body' = [body EXCEPT ![k].complete = TRUE, ![k].error = "Other"]
  /\ snap' = Published(k, body[k].got, FALSE)
  /\ UNCHANGED <<payloadVars, taskVars, etag, invalid, current, bodies, prod, chan, mark>>

\* The client drops the body of a request that is over; a body that is not
\* complete aborts its producer.
DropBody(k) ==
  /\ body[k].open /\ (task # "Request" \/ current # k)
  /\ body' = [body EXCEPT ![k].open = FALSE]
  /\ prod' = [prod EXCEPT ![k].abort = @ \/ ~body[k].complete]
  /\ snap' = IF body[k].complete THEN snap ELSE Published(k, body[k].got, TRUE)
  /\ UNCHANGED <<payloadVars, taskVars, etag, invalid, current, bodies, chan, mark>>

Over == {"Done", "Reconciled", "Skipped", "Failed"}

\* abort_and_drain_body_tasks, when the transfer is over: no producer of the store
\* goes on, though a client may still have its body.
AbortBodies ==
  /\ task \in Over /\ \E k \in Attempt : body[k].open /\ ~prod[k].abort
  /\ prod' = [k \in Attempt |-> [prod[k] EXCEPT !.abort = @ \/ body[k].open]]
  /\ UNCHANGED <<payloadVars, taskVars, etag, invalid, current, bodies, body, chan, mark, snap>>

-----------------------------------------------------------------------------
(* The PUT attempts *)

\* reset_attempt_diagnostics and a fresh body.
Begin ==
  /\ task = "Between" /\ tries < entry.attempts
  /\ task' = "Request" /\ tries' = tries + 1 /\ current' = 0
  /\ mark' = [attempt |-> 0, stage |-> "AwaitingFirstPoll"]
  /\ UNCHANGED <<payloadVars, planned, etag, invalid, bodies, body, prod, chan, snap>>

\* S3 has taken a body of the declared length.  The client need not poll a body
\* that is declared empty.
Taken ==
  \/ spooled
  \/ current = 0 /\ length = 0
  \/ current # 0 /\ body[current].complete /\ body[current].error = "None"

RequestOk ==
  /\ task = "Request" /\ Taken
  /\ task' = "Done"
  /\ UNCHANGED <<payloadVars, tries, planned, etag, invalid, current, bodies, body, prod,
                 chan, mark, snap>>

\* The request fails: the connection, the body or the service, which may answer
\* at any time.  A conflict is reconciled when the digest is known and S3 turns
\* out to hold the object; a validation error is never retried.
RequestErr ==
  /\ task = "Request"
  /\ \/ task' = "Failed"
     \/ task' = "Reconciled" /\ etag # <<>>
     \/ task' = "Between" /\ ~invalid /\ tries < entry.attempts
  /\ UNCHANGED <<payloadVars, tries, planned, etag, invalid, current, bodies, body, prod,
                 chan, mark, snap>>

Terminated ==
  /\ task \in Over
  /\ \A k \in Attempt : ~body[k].open /\ prod[k].pc \in {"None", "End"}
  /\ UNCHANGED vars

Next ==
  \/ Unprepared \/ Prepared \/ PrepareFails
  \/ \E k \in Attempt :
       Produce(k) \/ ProducerBreaks(k) \/ PollFrame(k) \/ PollClosed(k) \/ DropBody(k)
  \/ FirstPoll \/ AbortBodies \/ Begin \/ RequestOk \/ RequestErr
  \/ Terminated

Spec == Init /\ [][Next]_vars

\* The tasks and the client that can go on do: nobody's turn is assumed to come
\* before another's.  Sources need not fail, and requests need not end.
Progress ==
  \E k \in Attempt : Produce(k) \/ PollFrame(k) \/ PollClosed(k) \/ DropBody(k)

FairSpec == Spec /\ WF_vars(Progress)

-----------------------------------------------------------------------------
(* Properties *)

\* The content this entry is uploaded with, if it is uploaded at all.
Intended == IF entry.marker THEN Replaced(entry.stream) ELSE entry.stream

Delivered(k) == body[k].complete /\ body[k].error = "None"

\* S3 never sees the declared length of a body before the whole entry has been
\* read and validated, and what it sees then is the validated content: for
\* markers, the replacement of the whole content, wherever the chunks were cut,
\* and with a catalog, the content that was authenticated.
ProvenBody ==
  \A k \in Attempt :
    (bodies >= k /\ length > 0 /\ Len(body[k].got) = length) \/ Delivered(k) =>
      /\ Valid(entry) /\ entry.trusted => entry.stream = entry.declared
      /\ body[k].got = Intended

\* The recorded digest, by which a conflict is reconciled, is that of the content
\* every delivered body and every spool has.
EtagIsBody == etag # <<>> => etag = <<Intended>>

\* A validation error is only ever recorded of an entry that is not what the
\* archive declares or the catalog authenticated: the streamed replacement
\* agrees with the planned one wherever the chunks are cut.
NoFalseAlarm == invalid => ~entry.header \/ ~Valid(entry)

\* When the client has the end of a body, the claims of its reader are released:
\* a client that stops polling there holds no source block.
HandshakeReleases == \A k \in Attempt : Delivered(k) => ~prod[k].claim

\* An uploaded entry leaves no claim waiting, unless no body of it was ever
\* polled: because it was declared empty, or because a conflict was reconciled.
ClaimsReleased ==
  task \in Over \ {"Failed"} /\ planned =>
    bodies = 0 /\ (length = 0 \/ task = "Reconciled")

\* docs/architecture.md:261 releases a block after its readers have consumed
\* their claims: of an entry that has been uploaded, no claim waits any more.
UploadReleasesClaims == task = "Done" => ~planned

\* A PUT whose body gave its client a validation error is never retried.
InvalidEnds ==
  [][task = "Request" /\ task' = "Between" =>
       current = 0 \/ body[current].error # "Invalid"]_vars

\* The failure record of a PUT attempt shows a snapshot of the body of this very
\* attempt or none, whatever producers and bodies of earlier ones still do.
SnapshotIsCurrent ==
  snap.attempt # 0 /\ snap.attempt = mark.attempt =>
    snap.attempt = current /\ snap.emitted = Len(body[current].got)

\* Every producer ends, however its body ends: neither the channel nor the pipe
\* of the replacement can hold it for ever.
ProducersEnd == \A k \in Attempt : prod[k].pc = "Run" ~> prod[k].pc = "End"

=============================================================================
