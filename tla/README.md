# A verification of the video intercom demo

The repository holds a demonstration of video intercom over SIP: a Windows
client (`src/sipclient/`, MFC, PJSIP, live555, ffmpeg) that shows an RTSP camera,
passes its video on to the other side of a call and exchanges short text
messages with it, and a SIP proxy (`src/SipServer/`, reSIProcate's `repro`), of
which one source file, `ResponseContext.cxx`, is kept.  The modules here model
the parts of both that keep state across events or threads.

## Inventory

| Part | State it keeps | Operations | What is hard | What makes it correct |
|---|---|---|---|---|
| Response context of the proxy (`ResponseContext.cxx`) | three maps of targets (candidate, active, terminated), tried contacts, best response and its priority, the flag for "final response sent" | add targets, begin, cancel, terminate and remove branches, process a response, a CANCEL, timer C | branches answer in any order; answers cross CANCELs, timers, redirects and new targets | one verdict upstream, losers cancelled, no request forgotten, a contact tried once, the best response wins |
| RTSP sessions (`RTSPStream.cpp`, `rtspAPI.cpp`) and the window calls (`VideoWnd.cpp`) | table of 64 session pointers; per session status, watch flag, index, decoder, callback; per camera connection the DESCRIBE / SETUP / PLAY progress; the window's `m_nRtspID` | openStream, closeStream, startVideo, stopVideo, the session's thread and its response handlers | no lock at all between the user interface, the SIP worker and the session threads; busy waiting | sessions are deleted once and after their thread, one camera at a time, calls return |
| RTP framing (`pjsua_app.cpp`: `send_rtp`, `on_rx_rtp`) | sequence and timestamp of the sender, reassembly buffer of the receiver | fragment a frame, append a fragment, deliver at the marker bit | UDP loses and reorders; frames follow one another without a check of sequence numbers | what is delivered is a frame that was sent |
| RTP transports (`init_local_rtp`, `init_recv_rtp`, `destroy_media`) | one endpoint with its thread, one media transport, `m_bInitMedia`, `m_bAttach`, port and remote address | create, attach, detach, destroy | run on the SIP worker while the camera's thread is in `send_rtp` and the endpoint's thread in `on_rx_rtp`; no lock; sockets are never closed | a transport is used only while it is there, a frame holds packets of its call, the worker comes back |
| Picture of the windows (`VideoWnd.cpp`: `videoCB`, `OnPaint`) | header, information block and pixels, global to all windows | replace the picture, paint it | two decoders and the user interface share the blocks without a lock | blocks are deleted once and used while they are there, the last picture is shown whole |
| Intercom dialog (`sipclientDlg.cpp`) | call id, kind of the current operation, KSLP message state, school and camera lists | buttons, call-state changes, LIST / PLAY / OK messages | messages are lost or cross; the state is set after the send | list and play requests are answered and shown for what they are |
| SIP application (`pjsua_app.cpp`, `pjsua_app_common.cpp`) | tone generators and their slots, ring counts, current call, pools and transport | `app_init`, `app_destroy`, `sip_call`, the state callbacks | any step of `app_init` fails; the worker thread calls back while the user interface closes the application | the tone sounds for the calls that ring, what was acquired is released once |
| Stream buffer queue (`MyAPI.cpp`) | ring of eight buffers, never filled | made and freed | - | - |
| Event buffer (`buffer.cpp`, `evbuffer.h`) | allocated area, misalignment, length | add, remove, drain, read a line, expand | offsets after drain, alignment and growth | a byte sequence |
| Decoder wrapper (`cdecodemgr.cpp`) | codec context | open, decode, close | deleted and used by different threads | used only while open |
| Settings, setup dialog, application shell, unused lock guard, console sample, the PJSUA command line sample, vendored headers | - | - | not reached, no state of their own, or input and output only | - |

How they interact: a button or an incoming PLAY message calls `startVideo`
(user interface or SIP worker thread); the session's thread delivers each frame
to the window, which calls `send_rtp` and the decoder; the peer's `on_rx_rtp`
runs on PJSIP's thread, reassembles the frame in an event buffer and calls the
window of the receiving side.  Calls between clients pass through the proxy,
whose `RequestContext` (a binary here) drives the response context: it is
described in the model by how the file uses it, as an external part.  `sip_call` and the
state callbacks of the SIP application drive the dialog, which creates the transports.

## Plan

1. `ResponseContext`, refining `ForkedRequest`, with its proofs in `ResponseContextProofs` - done.
2. `RtspSession`, refining `Camera`, with proofs in `RtspSessionProofs` - done.
3. `EventBuffer`, refining `ByteQueue`, with its proofs in `EventBufferProofs` -
   done.
4. `RtpFraming`, refining `FrameChannel`, with its proofs in `RtpFramingProofs` - done.
5. `Intercom`: the dialogs of clients and a proxy, their calls, their KSLP
   messages, and the transports that the calls create, with its proofs in
   `IntercomProofs` - done; still to do: login and exit.
6. `SipApp`: `app_init`, `app_destroy`, the ringback and `current_call`, with its
   proofs in `SipAppProofs` - done.
7. `VideoPath`: the threads that meet in the life of the RTP transport, with its proofs
   in `VideoPathProofs` - done.
8. `VideoWindow`: the picture that decoders and user interface share, with its proofs in
   `VideoWindowProofs` - done.

How the modules fit together: each takes from the next what that one promises.
`RtspSession` gives a frame to a window (`FrameArrives`), which is `SendRtp` of
`VideoPath` and of `RtpFraming`; `RtpFraming` treats the event buffer as the queue
that `EventBuffer` is proved to be; a frame that `VideoPath` delivers is decoded into
the pictures of `VideoWindow`; `Intercom` confirms the calls that `VideoPath` counts.

## ResponseContext

One thread of the proxy runs all of it, one event at a time, so an action is a
whole handler.  The methods are operators from a context (a record with the
members of the class) to a context, and handlers compose them in the order of the
calls in the code; `phase` says which chain of `RequestContext` is running and so
which operations may be called:

| Model | Code |
|---|---|
| `ctx.cand`, `.actv`, `.term` | the three `TransactionMap`s |
| `ctx.status[t]` | `Target::status()`; `"none"` before it is added, `"gone"` after removal |
| `ctx.tried` | `mTargetList` |
| `ctx.bestCode`, `.bestPriority` | `mBestResponse`, `mBestPriority` |
| `ctx.final` | `mHaveSentFinalResponse` |
| `ctx.accepted`, `.rejections`, `.abandoned`, `.garbage` | what went upstream: history that the properties compare |
| `reply[t]` | what the transaction layer has delivered for a branch |
| `seen` | history: the final codes compared so far |

Modelled as external, from how the code uses it: `RequestContext` (its chains,
`sendResponse`, the 480 for a request without targets and the 500 for one whose
candidates nobody began), `Target`, the transaction layer.  Assumed of it: a
processor that answers the request by itself belongs to the request chain; that
chain adds targets but begins none; a redirection is eaten by the response
chain; a branch gives one final response, or retransmitted 2xx after a first.

Left out: headers, Record-Route and Path; the order in which targets are begun
(`mTransactionQueueCollection`, `mOutboundMap`: any order is allowed); `mSecure`,
which the constructor always makes false; the serial number of timer C; ACK
requests; processors that throw while a response is processed.

`ForkedRequest` is what the caller and the phones are promised: a branch is asked at most
once, and only while nobody has decided; the request is decided once, by the first
branch that accepts or by a rejection when no answer is awaited; a call that is accepted
stops ringing everywhere in the same step; a request that is no INVITE is never called off.
The refinement mapping reads the verdict from what went upstream, takes the active map
for the branches awaited, those with the status `"Started"` for the ones that ring, and
for the ones asked also those that have answered.  `IsForkedRequest` is
about steps where the invariants are about states: `LosersCancelled` (every branch active
after the answer to an INVITE has been cancelled), which no run lists any more, follows
from it, because nothing is asked after the step that silences all.

Runs:

| Run | Specification and bounds | Shows |
|---|---|---|
| `fork` | four targets, two with one contact; codes 180, 200, 302, 407, 408, 412, 503, 603; fair | the type invariant, `OneVerdict`, `SomeoneWillAnswer`, `NoActiveRemoved`, `ForkOnce`, `BestIsBest`, `EmptyOnlyUncompared`, `IsForkedRequest`; `Answered` |
| `fork_best` | the same targets; 200, 503 | a disagreement: `AlwaysAResponse` fails |

Why the bounds are enough: the codes hold one representative of each branch of
`processResponse` and of each treatment by priority (merged 3xx and challenges, the
rewritten 503, the 408 that a non-INVITE abandons, a middle 4xx, 2xx, 6xx, a
provisional one); the methods look at one target, the others, and equality of
contacts, so that two equal contacts and two more targets reach every relation of
winner, loser, late and duplicate branch.  The theorems do not depend on them.

Fairness: a chain of processors ends, and a branch that was begun
gets a final response, the transaction layer's own 408 if no other, which the queue
of the context's thread delivers in its turn.  Strong fairness is needed for the
second because other events may come in between; nothing else is fair: no
processor, CANCEL or timer has to happen.

The disagreement: a final response with no Via to go on to (or a malformed one)
ends its branch without entering the comparison, though the comment calls it a server
error.  If all branches end so and the response chain is over, the best response is
still the empty message made by the constructor, and it is sent.

### What is proved

`ResponseContextProofs` proves, for every set of targets, contacts and status
codes that satisfies `TargetsAssumption` (contacts are assigned to targets, codes
lie in 100..699) and with no fairness:
`TypeCorrect`, `AnsweredOnce`, `NoPhoneRingsOn`, `AlwaysDriven`,
`RemovedOnlyWhenTerminated`, `RungOnce`, `KeepsTheBest` and `EmptyIsUncompared` (the
limit of the disagreement above: an empty message goes up only when no response was
compared at all), which are the invariants
of `fork` and `LosersCancelled`, `TargetsInOneMap` (`MapsAgree`: a target's status names
the one map it is in), and the refinement `ImplementsForkedRequest`.

The argument: none of these is inductive alone.  The inductive invariant `IInv`
adds that the flag for the final response is set exactly when something was sent
(`Told`), that all branches of an answered INVITE are cancelled, that nothing was
begun before the target chain (`NothingStarted`), that a branch with a final response
is in the terminated map or gone (`Replied`), and that between events an unanswered
context has an active branch (`Driven`).  Since a handler is a composition of
methods, the proof is one too: `Settles` and `Follows` relate the contexts before and
after a method (maps that only grow in one direction, verdicts only once), each
method has a lemma saying that it stays within the relation, the relations are
transitive, and a handler's lemma is the chain of its methods' lemmas.

Two invariants on top of it, in `RInv`.  `ForkOnce` needs that the contact of every
branch begun is in `mTargetList`: the list only grows, and what is begun is not in it.
`BestIsBest` needs that the best response is still the empty one as long as nothing was
compared (`Best`), or the first 6xx might be taken for a second.  `EmptyOnlyUncompared`
needs the converse, that a compared response replaced the empty one for good; the
priority cannot tell, since the code 0 of an empty message would rank with the codes
`getPriority` does not list.  `Quiet` relates
contexts between which nothing is begun and nothing compared: that is what most methods
do, each by its lemma.

The refinement has one lemma per kind of step: branches are called off (`CallOffStep`),
asked (`AskStep`), one ends (`BranchEndsStep`), or the request is rejected
(`RejectStep`); the lemma of each handler shows which of them it is.  `Hushes` says of a method that
it asks nobody and cancels only branches of an INVITE, and is transitive like the other
relations.  One more invariant was needed, `FInv`: the response kept
until the final one is no 2xx, or `forwardBestResponse` would accept a request
that all branches have refused.

Two theorems are then proved of the abstract request alone and hold of the context by
the refinement.  `RejectedWhenNobodyIsLeft` (`Settled`): the caller is told no only when
no branch is active that could still say yes, and an accepted INVITE rings nowhere.
`VerdictIsFinal` (`Final`): the answer is never taken back, nobody is asked after it,
and a branch once called off does not ring again.

Only model-checked: `Answered`, since liveness under fairness is out of the prover's
reach.  What it rests on is proved: `AlwaysDriven` (an unanswered request has an active
branch) and, for finitely many targets, `AnswersDoRunOut`: `AnswersLeft` counts each
target that was not asked twice and each active branch once, no event makes it grow, and
each final response of an active branch makes it smaller.  So neither redirects nor new
targets put the answer off for ever; fairness has only to deliver the responses.

## RtspSession

Callers (the user interface and one SIP worker) and one thread per session run
the code with no lock, so a step is one access to state that another thread can
see; `pc` is the label of each thread.  No guard keeps one call out while another is
inside, as none does in the code.

| Model | Code |
|---|---|
| `slot` | `rtspAPI::m_rtsp` |
| `live`, `sess[s]` | the allocated `CRTSPSession` objects: `m_nStatus`, `eventLoopWatchVariable`, `m_nID`, `m_pDecode`, `m_pCB` |
| `client[s]` | `ourRTSPClient` with its `StreamClientState`: index, pending command, media lines, sinks, timer |
| `rtspId` | `CVideoWnd::m_nRtspID` |
| `ptr`, `arg` | locals of `openStream`, `closeStream` |
| `fault` | the undefined behaviour that ends the behaviour: a null slot, a deleted or doubly deleted session, index -1 or -2, a session without or with a deleted decoder |
| `crossed` | history: two window calls were in progress at once |

`CloseLookup` to `ClearSlot` are `closeStream`, `StartVideo` to `SetCB`
`startVideo`, `ThreadOpen` to `ThreadFinish` `rtsp_fun`, `AfterDescribe` to
`FrameDecode` the handlers that live555 calls.  External: live555's event loop
(`LoopPoll`, `PollIdle`, `Handled`), which tests the watch variable between single
steps only.  Left out: `rtspAPI::UnInit` (it runs when the process ends), `m_running`
(written, never read), a null RTSP client (`createNew` never returns one).

`Camera` is what a user of the window is promised: one camera at a time.  A session is
opened, its thread starts, it is listed in the table, its thread ends, it is deleted, it
is taken off the table, in this order, before the next one is opened; the promise ends
when two calls have crossed.  The refinement
mapping takes the allocated sessions, those whose thread runs, those in the table, and
`crossed`; `IsCamera` therefore says that no session is lost, deleted under its thread or
found after its deletion longer than the one step that removes it.

Runs (two session addresses, so that one is used again):

| Run | Specification and bounds | Shows |
|---|---|---|
| `rtsp_calls` | two slots, up to two media lines; up to the step with which calls cross; fair threads | the type invariant, `MemorySafe`, `IsCamera`, `StopNotLost`; `CallReturns` |
| `rtsp_shutdown` | as `rtsp_calls` | a disagreement: `ShutdownCloses` fails |
| `rtsp_two_streams` | calls cross; two slots, one media line | a disagreement: `OwnStream` fails |

What is promised when calls cross: the user interface and the SIP worker enter `startVideo`
and `stopVideo` whenever they like.  When they do so together, sessions are deleted twice
and entries are null when they are written through; the model reaches this and ends there,
and no property pretends otherwise.  `MemorySafe`, `IsCamera` and `CallReturns` therefore
speak of a behaviour up to the first step with which two calls have crossed, in their own
text and not by an assumption: they say that every such misuse needs a crossing.  What is
left is the interesting part: the session's thread, its handlers and its own `closeStream`
against one caller.  Two misuses do not need a crossing, and `MemorySafe` names them: a
handler that looks its entry up while `openStream` is between starting the thread and
setting the entry (`nullSlot`), and a thread that cannot be created, whose error code is
then used as an index (`noThread`).  `StopNotLost` and `TypeOK` hold whatever crosses; that is proved, while the run ends at the
crossing.

The constraint `NotCrossed` of `rtsp_calls` and `rtsp_shutdown` ends the search at the
crossing step.  That hides nothing of `MemorySafe`, `IsCamera` and `CallReturns`: `crossed`
is never reset, and they are true of whatever follows.  `ShutdownCloses` fails without any
crossing.

Two media lines let one sink end while the other plays; two sessions let an old
thread and a new one meet; more slots are never used by callers that have not crossed,
because a stream is closed before the next is opened.

Fairness: the threads are preemptively scheduled and a single step of the event
loop ends by itself, so each thread that can run does.  No user and no camera has to
act.

The disagreements: a fatal event (error reply, end of the last sink, timer)
makes the session's thread call `closeStream` on itself and wait for the status it
would set afterwards; and the thread is started before its session knows its
index, so with two streams the second may act on the first one's entry.

### What is proved

`RtspSessionProofs` proves, for all sessions, workers, table sizes and numbers of media
lines and for calls that cross as they like, `TypesStay` and `StopStays` (a session
that was asked to stop stays asked until it is deleted, whichever thread asked, and
also if its thread was still opening its URL).  The inductive invariant `IInv` adds to the
types that a client that waits for the answer to a SETUP has a media line it belongs to:
without it the counter of the lines would leave its range.

Of the same specification, with no assumption about the order of the calls, it proves
`MisuseNeedsCrossing` (`MemorySafe`), `OwnStreamUntilCrossed` and `OneCameraUntilCrossed`,
the last being the refinement of `Camera`.  The inductive invariant is `UntilCrossed`: two
calls have crossed, or `TurnInv`, `NullSlotOk` and `WaitInv` hold.  `TurnInv` says, for
each label of the one caller inside (`CallerOk`), what the table and the allocated sessions
are: nothing (`Blank`), the listed session (`Shown`), or one that is not listed yet
(`Opening`); and for each session's thread (`ThreadOk`), that its object exists, which
status it has written, and that it leaves its loop only for a caller that waits in
`closeStream`.  Only the first
entry of the table is ever used (`FirstEntry`), which is why the table cannot fill.  The
invariant is needed because each half of it rests on the other: a caller may delete
since status 2 is written by a thread that is done, and a thread may use its object
since the caller deletes at status 2 only.  A step either crosses, and there is nothing to
show, or finds one caller at most, and the lemmas about `TurnInv` apply.

`CallReturns` is a liveness property and is model-checked only.  Its safety half is
proved, `WaitsEndUntilCrossed`: at no time before a crossing does a window call wait in vain
(`WaitEnds`).  The session it waits for exists, and its thread has reported its end, or is
past its event loop, or will find its watch variable set when it next tests it; only a
thread that waits for itself, the disagreement above, is exempt.  What is left to fairness
is that the thread goes on.  The invariant `WaitInv` adds that a thread that is done has
said so (`EndedOk`), until `OpenPick` uses its address again.

The exemption is no detail: `SelfWaitStaysUntilCrossed` proves that a thread that waits for
itself does so for as long as no calls cross, that its session is not deleted and that a
window call that waits for it does not return.  From the refinement follows
`OneSessionUntilCrossed` (`AtMostOne` of `Camera`): the session that is allocated, the one
that runs and the one in the table are the same.

## EventBuffer and ByteQueue

`EventBuffer` is `buffer.cpp` with its memory: a block (`mem`), where the bytes in
use begin (`misalign`) and how many they are (`off`).  `ByteQueue` is what a
user of `evbuffer.h` relies on, a queue of bytes.  The refinement mapping is
`Content`, the bytes in use.

| Model | Code |
|---|---|
| `buf[b].mem` | `orig_buffer` and its `totallen` bytes; `Junk` is what was never written |
| `buf[b].misalign`, `.off` | the fields of these names; `buffer` is `orig_buffer + misalign` |
| `Expanded`, `Unexpanded` | `evbuffer_expand` that succeeds, and whose `realloc` fails |
| `EvbufferAdd`, `EvbufferAddPrintf`, `EvbufferDrain`, `EvbufferRemove`, `EvbufferReadline`, `EvbufferAddBuffer`, `EvbufferFree` | the functions; a buffer that was freed is followed by a new one |
| `line` | what `evbuffer_remove` or `evbuffer_readline` last gave to its caller |
| `overrun` | memory outside of the block was written: this ends the behaviour |

Allocation may fail at any time.  A block doubles from `MinAlloc` (256 in the code) until
what is needed fits; `MaxTotal` bounds it, and a block that would be larger fails to be
allocated, as far as the model is concerned.  The result of the first `evbuffer_expand` of
`evbuffer_add_vprintf` is ignored: when it fails, the text is formatted to the space that
there is.  When there is none, the code writes outside of the block (`buffer.cpp:117-131`);
the model reaches that, sets `overrun` and ends.  So `Layout` is no promise about every
write: it says that the bytes counted as in use lie in the block and were written.
`IsByteQueue` covers a lack of memory as far as the queue shows it: `evbuffer_readline`
without memory for the line loses its text, which `ByteQueue` has as a drain, so that no
property speaks of that loss.  Left out: the callback, which nothing sets, and
`evbuffer_find`, which only reads.

The run `evbuffer` checks the type invariant, `Layout` and `IsByteQueue` with two
(symmetric) buffers, pieces of nothing, a letter, a terminator, and two terminators, and
blocks of one, two or four bytes (`MinAlloc` 1, `PrintfSpace` 2, `MaxTotal` 4) of which there
is memory for four bytes at a time (`MemoryBound`): two blocks of two that are exchanged or
appended, or one that grows to four.  That is enough for each of the ways to fit: as it is,
after a move, after growing from no block or from a smaller one, and, with four bytes, after
growing from a block whose bytes were moved to its start first; for failing to
fit; and for all ways to end a line.  The theorems remove the bounds.

### What is proved

`EventBufferProofs` proves, for all sets of buffers, bytes and pieces and all sizes,
`TypeCorrect`, `LayoutHolds` and `ImplementsByteQueue` (`Spec => Queue!Spec`), from
`BufferAssumption`: the terminators are bytes and differ, the pieces are sequences of
bytes, `Junk` is none.

The inductive invariant `IInv` says of each buffer that it is `Good`: the bytes in use
lie in the block and were written.  That is needed for the refinement, since it is
what makes the content a sequence of bytes.  `Room(b, e, n)` is what
`evbuffer_expand` promises (the same content, and room for `n` bytes more); each helper
has a lemma about `Good` and `Content`, each function a lemma that gives its step in the
queue, and `StepIsQueueStep` puts them together.

## RtpFraming and FrameChannel

`send_rtp` cuts a frame into packets and `on_rx_rtp` puts them together.  The frame in
hand, the packets on their way and the bytes in the receiver's event buffer are the
state; the event buffer is a sequence here, which `EventBufferProofs` justifies.
`FrameChannel` is what the two promise together on a network without losses: whole
frames, in order.

| Model | Code |
|---|---|
| a packet's frame, position, length, marker, timestamp step | what `send_rtp` passes to `pjmedia_rtp_encode_rtp` and `pjmedia_transport_send_rtp` |
| `rtpTsLen`, `totalLen` | `rtp_ts_len` and `total_len`, globals that outlive the call |
| `SendRtp`, `SendPacket` | the start of `send_rtp` and one turn of its loop |
| `OnRxRtp`, `Reassemble` | `on_rx_rtp`: append, and at the marker deliver and start anew |
| `Lose`, and a choice of the packet in `OnRxRtp` | the network (external): it loses packets, and lets packets overtake others |
| `disturbed` | history: the packets that were lost, overtaken, or overtook |

Left out: sequence numbers (written, read by nobody), duplicated packets, statuses of
the transport, `active` and the callback (they belong to the life of the transports).

The run `rtp` has frames of 2, 3, 4, 6 and 8 bytes, three at most, and a network that
loses and reorders until four packets are disturbed; both threads are fair.  It shows
`DeliversFrames` (as long as nothing was disturbed, every step is one of
`FrameChannel`), `DamageIsLocal`, `OneTimestampPerFrame`, and `FramesArrive`: a frame
whose packets, and the marker before them, were not disturbed arrives, whatever
happened to the others.

A block (`BLOCK_SIZE`) is three bytes here and 1400 in the code; frames from less than a block to twice a block
and more meet an exact fit, a multiple, and one byte more or less.  Fairness: both
threads go on, and the network delivers what it does not lose.

### What is proved

`RtpFramingProofs` proves, for every size of block, any frames, any number of them and
of disturbed packets (`FramingAssumption`: sizes and lengths are positive) and with no
fairness, all of the run but `FramesArrive`: `TypeCorrect`, `TimestampIsOfFrame`,
`DamageStaysLocal` and `FramesInOrder`, that an undisturbed network makes the two
functions a `FrameChannel`.  `FramesAreComplete` adds what the channel, which knows lengths
only, cannot say: without disturbance the callback was given the packets of each frame,
whole and in order, and nothing is missing when nothing is left to send or under way.

The argument.  `Cut` and `Payloads` are the arithmetic of `nBlockNum` and the payload
sizes: the blocks cover the frame, all but the last are full and the last ends it.
`NetInv`: what is under way was sent, in the order of sending.  The heart is `LocalInv`:
for every undisturbed frame the receiver either still awaits the marker before it
(`Waiting`), or has a first part of it and nothing else in `outbuf` (`Reading`), or has
delivered it; in the first two cases all that it lacks and that was sent is under way.
`OldestIsNext` shows that the oldest packet is then the next one of the frame, and
`WholeFrame` that with the marker `outbuf` is the frame.  A loss or an overtaking that
could break this disturbs the frame, and a frame once disturbed stays so.  When all of a
frame was sent and none of it is under way the first two cases are impossible: that is
`DamageIsLocal`.  `TurnInv` says that without disturbance the frames come out in turn;
`TimeInv` that no packet has a later timestamp than the current one, and that those of the
current frame have it.

## Intercom

One instance of the program per node, its role fixed by the `appType` setting: a
client calls, hangs up and has the tree of schools and cameras; a proxy answers at
once and has the lists.  The radio buttons that could change the role, and Answer,
Hungup2, Getlist and Send, are invisible in the resource file and so not used.

| Model | Code |
|---|---|
| `callId`, `nOp`, `msgState`, `tree`, `schoolName` | `call_id`, `m_nOp`, `m_MsgState`, `m_Tree`, `m_szScoolName` of the dialog |
| `localPort`, `remote` | `g_local_port`; `g_remote_ip` and `g_remote_port` |
| `transport`, `attached`, `bound` | `video.transport` (null, live, or freed memory), where it sends, the ports of sockets that are open |
| `pending` | the value a double click stores to `m_MsgState` after `send_message` has returned |
| `calls`, `net` | both legs of every call, the messages under way: pjsua and the network, external |
| `overlapped`, `hung`, `raced` | history: nodes with two calls at a time; calls during which Hungup was pressed; clients with two requests under way, or a reply before the store |
| `unmade` | history: clients whose last press of Call made no call |

A handler is one step, except that the store to `m_MsgState` is one of its own, because
a thread of pjsip may deliver the reply before it.  `IncomingCall` is everything an
INVITE does up to the 200: `log_on_rx_msg`, `on_incoming_call`, and the answer from
`UpdateStatus`; the answer's SDP may be written before or after `set_local_rtpport`, so
it holds either port.  SIP retransmits, so messages are neither lost nor doubled here,
but come in any order.
`ButtonCall` sets `m_nOp` and calls `sip_call`, whose result it ignores: `SipCall` makes the
call, or none (no account, or a destination that gives no valid URI), and then no callback
will ever take the operation back.

Left out: login, exit, settings; what a PLAY starts (that is `RtspSession`) and its
index (`StartRtsp` ignores it); `m_bSendRtp`, which nothing reads; the sending of frames.

| Run | Bounds | Shows |
|---|---|---|
| `intercom` | two clients (symmetric) and a proxy; calls and double clicks together at most 3; Call may fail any number of times while one is left | the type invariant, `TreeIsOfRequest`, `FirstCallHasVideo`, `DialogKnowsItsCall` |
| `intercom_school` | one client, 4 double clicks | a disagreement: `AsksSchools` fails |

Three uses let two calls of two clients overlap at the proxy while a list is asked for, a call
follow a call, and a client open the city, a school and a camera.  The fourth is needed to
open a second school.

The properties are hedged by the history variables because the code promises no more,
and each hedge was found to be needed.  What lies outside of them is:

- a reply says not what it answers, and `m_MsgState` decides how it is shown, so two
  requests under way, or a reply before the store, mis-show a list;
- `send_message` ignores its addressee when there is a call: the proxy's reply to
  one client goes into its call with another;
- Hungup before the answer is refused by pjsua (call -1) but sets `m_nOp` to 0: the call is
  answered all the same and gets no transport;
- when `sip_call` fails `m_nOp` stays 1 in a dialog without a call (until the next call
  ends, or Hungup): `OperationFits`, the part of `DialogKnowsItsCall` about `m_nOp`, has `unmade`
  as its one exception in that direction, and so says that nothing else leaves it so;
- with two calls at a time the end of either clears `call_id`, and Hungup cannot
  reach the other;
- no socket is ever closed, so the `bind` of every call after the first fails, its result
  is ignored, and `video.transport` remains the freed one.

The disagreement: the comment at `sipclientDlg.cpp:730` says the cameras of the school are
fetched, but the loop that shows the cameras of a school leaves the last of them in
`m_szScoolName`, which the next list of cameras uses as the label of its school; opening
that item then asks for the cameras of a camera.

### What is proved

`IntercomProofs` proves, for any clients and any number of calls and double clicks,
`TypeCorrect`, `DialogIsOfCall`, `VideoOfFirstCall` and `TreeMatchesRequest`, the
properties of the run `intercom`.  `IInv` has two halves that do not disturb each other
(`CallsQuiet` and `ListsQuiet`):

- the calls.  `WireInv` says what a message under way tells of the two legs of its call
  (an ACK, that the caller has confirmed and the proxy has not; ...) and that it is the
  only one of its kind about it, so that a handler knows the legs it finds; `LegInv` that
  only Hungup ends a call; `OneCall` that a node that never had two calls at a time has at
  most one live one, which is what makes the one `call_id` enough.  `MediaInv` follows the
  first call of two nodes: their transports are `Fresh` until each sees the call confirmed,
  and `g_remote_port` of the proxy is the caller's from the INVITE on, because a second
  INVITE would be a second call that reached the proxy;
- the lists.  `AskInv` says that a client that is neither raced nor in a call has at most one
  request or reply under way, and that what it `Awaits` (`m_MsgState`, or the value about
  to be stored to it) is what that message lists; `TreeInv` that replies outside of calls go
  to the one who asked, which fails for clients in calls and is why the property names them.

Each action has a lemma that says what it does, and one for each half.  A press of Call
without a call (`CallFails`) has lemmas of its own; it touches `m_nOp`, the local port and
`unmade` only.

## SipApp

| Model | Code |
|---|---|
| `ui` | where the user interface thread is in `app_init` or `app_destroy` |
| `held`, `failed` | history: pools, pjsua, the transport, acquired and not released; the call that failed |
| `port`, `slotValid`, `linked` | `ringback_port` and `ring_port`, whether their slots differ from `PJSUA_INVALID_ID`, the connection of the ringback to the sound device |
| `ringbackCnt`, `ringbackOn`, `currentCall` | `ringback_cnt`, `call_data[].ringback_on`, `current_call` |
| `worker` | how far `on_call_state` is with a call that was disconnected: in `ring_stop`, before the rewind, before the test, the search and the store of `current_call` |
| `inv` | the states of pjsua's calls, external |

`app_init` is cut where a call can fail; every other thing it does is part of the step
before the failure.  `load_config` only sets defaults, so the branches for files, AVI,
TCP, accounts, sound devices, call durations and `no_tones` are never taken and are not in the
model; nor are the ring tone's counters, because `ring_start` is commented out at its
only use.  There is one worker thread (`thread_cnt` has its default), and
`pjsua_destroy` joins it before it polls by itself: so handlers run one at a time.  The Init
button is taken to be pressed once; it ignores `app_init`'s result, and OK then runs
`app_destroy` a second time, which is in the model.

The run `sipapp` has three calls (two that ring together and one more that is found, or
ends, meanwhile) and checks the type invariant, `RingCounts`, `RewindIsLate`,
`CurrentCall` and `CleanExit`; the program may end, so it may deadlock.  Two facts it
rests on deserve a reader's eye: the ringback is only ever stopped by
DISCONNECTED, so a caller hears it during the whole call (the handler that would stop it
earlier is commented out); and a failure of `pjsua_start` releases `tmp_pool` twice, the
exception that `CleanExit` names.

### What is proved

`SipAppProofs` proves, for any number of calls, `TypeCorrect`, `RingsWhileCounted`,
`RewindsLate`, `CurrentCallLives` and `ExitsClean`, the properties of the run.  `IInv` joins what each
stage of `app_init` and `app_destroy` holds (`Holds`), where the slots are in their life
(`Slots`), that a handler's call has ended and is silent after `ring_stop` (`Handlers`),
that nothing rings without a transport (`Quiet`), what a handler about to rewind finds
(`Window`) and what `current_call` may be while `find_next_call` runs (`Current`).  `RingCounts` needs the first four: the
reset of `app_config` makes the slot look open again, and only `Slots` and `Quiet` know
that the tone is disconnected by then; the number pjsua gives to a new call is silent only
because its last handler was.  Each part has a lemma with a step per action;
`CountOne` and `CountNext` are the facts about cardinalities.

## VideoPath

Three threads meet in `pjsua_app.cpp` around one media transport: the SIP worker, on
which each confirmed call runs `init_local_rtp` (and it `destroy_media` for the call
before); the thread of the camera's session, which runs `send_rtp` for each frame; and
the thread of the media endpoint, which runs `on_rx_rtp` for each packet.

| Model | Code |
|---|---|
| `worker` | where the SIP worker is in `init_local_rtp`: from `detach` to `clear` it is in `destroy_media` |
| `initMedia`, `attach`, `active`, `transport` | `m_bInitMedia`, `m_bAttach`, `video.active`, `video.transport` (null, open, or memory of a destroyed pool) |
| `endpoint`, `quit`, `receiver` | `med_endpt`, named by the call that created it; the endpoint's order to its thread to quit; that thread, in the test of the order, in its poll, or in the data callback |
| `sender` | the camera's thread: in the loop of `send_rtp` over the packets of a frame, or in the decoder after it |
| `outbuf`, `frame` | whose payloads are in `outbuf`; history: whose payloads the last delivered frame had, and whether it was the first of its call |
| `raced`, `createFailed` | history: `send_rtp`'s loop ran together with `destroy_media`; an endpoint or a transport could not be created |
| `fault` | a call of a transport that is null or freed or of an endpoint that was destroyed, or a second thread in `on_rx_rtp`; it ends the behaviour |

External: pjmedia, as far as the calls rely on it.  The endpoint has one worker thread,
which `pjmedia_endpt_destroy` tells to quit and joins; the pool's destruction frees the
transport; the socket stays open, so that the next creation on the same port may fail.
A creation that fails leaves the pointer as it was, and `pjmedia_transport_udp_create` refuses
an endpoint that is NULL.
What a packet and a frame are in detail is in `RtpFraming`; what is done with the picture is in
`VideoWindow`.

The run `videopath` (four calls; fair worker and endpoint threads) shows the type
invariant, `TransportSafe`, `OnlyFirstFrameMixed` and `InitReturns`.  Four calls let the
leftovers of a call whose frame never ended pass over a call without packets to a third.
Fairness: the threads are preemptively scheduled.  Nothing is assumed of calls, packets
and frames: the SIP worker comes back however many packets arrive, because the thread it
waits for tests the order to quit between two polls.

The exceptions in `TransportSafe` are what the code does: `send_rtp` tests
`m_bInitMedia` and the transport once, before its loop, and `destroy_media` clears the
first only after it has freed the second; and the results of both creations are
ignored.  When the bind fails, a second call on the same port goes on with the freed
transport, and a first one with NULL.  When the endpoint cannot be created (line 2637), the
first call has no transport either, and a later one creates its transport with the endpoint
that `destroy_media` has destroyed.  The model reaches all of these.

### What is proved

`VideoPathProofs` proves, for every number of calls, `PathTypesStay`,
`TransportStaysSafe` and `LeftoversSpoilOneFrame`.  None of the three is inductive.
`MediaInv` ties `m_bInitMedia` to the worker's place and says that it means a
transport, except between the freeing and the clearing; `SenderInv` that the sender is in
its loop only while there is one, unless it raced; `ReceiverInv` that the endpoint's
thread is gone wherever the endpoint is (which is why on_rx_rtp needs no lock for
`outbuf`); `FrameInv` that a call that has delivered a frame has only its own
packets in `outbuf`.

`InitReturns` is a liveness property and only model-checked, but its variant is proved:
`InitOnlyComesNearer`.  `StepsLeft` counts the steps that `init_local_rtp` still has to do
and, while it is in the join, those of the thread it waits for.  No step of any thread
makes it grow, and each step of these two makes it smaller, since the thread was told to
quit before it is joined (`QuitInv`): packets cannot prolong the wait.  Fairness has only
to add that the two go on.

## VideoWindow

`m_bih`, `m_pInfo` and `m_pData` are globals of `VideoWnd.cpp`: the local and the remote
window have one picture between them.  Each decoder's thread replaces it in `videoCB`,
the user interface draws it in `OnPaint`, and when the dialog has ended it deletes the windows,
and with them the picture, one after the other.  A step is one access to a global.

| Model | Code |
|---|---|
| `cb[d]`, `pic[d]` | where the decoder's thread is in `videoCB`, and the picture it was given |
| `bih`, `info`, `data` | `m_bih`, `m_pInfo`, `m_pData`: the state of a block (null, allocated, written, deleted), its length and what it holds |
| `ui` | the user interface: out of everything, in `OnPaint` with the pointers in hand, past the dialog (`"closed"`), or at a place of `~CVideoWnd` |
| `gone` | the decoders whose windows are deleted or being deleted |
| `stale` | a block that `OnPaint` holds was deleted meanwhile |
| `NumBytes` | `avpicture_get_size` (rows are not padded) |
| `RowBytes`, `DibBytes` | external: what `StretchDIBits` reads for a bitmap of 24 bits per pixel, rows padded to 32 bits |
| `crossed`, `torn`, `late` | history: two callbacks ran together; a painting and a callback did; a callback ran together with the deletion of a window, or after that of its own |
| `misuse` | the misuses of memory met; all but `"behindHeader"` end the behaviour |

`SetHeader` stores the size before the test that returns for an empty picture, as lines 134-138
do.  `DialogEnds` is the end of the dialog; when it was cancelled nothing has stopped the
decoders.  `DeleteDecoder`, `EndInfo` and `EndData` are `~CVideoWnd`, which `~CsipclientDlg`
runs for each window, with the deletion and the store of NULL as separate steps.  A callback
that comes when its window is gone, or ends when it is, is the misuse `"deadWindow"`.

`behindHeader` is tolerated because it is no exception but the rule: the `memcpy` at line 156
copies `sizeof(BITMAPINFO)` bytes from `m_bih`, a `BITMAPINFOHEADER`, and so reads the four bytes
behind it in every callback.  They become a palette entry that a 24 bit bitmap does not use.
The row size that line 140 computes, `4*(nW*24+31)/32`, is by C's precedence about `3w+3` bytes,
neither the decoder's row nor the bitmap's, and it is not used; the model has no definition of it.

The run `window` has two decoders, the widths 0, 4 and 6 (empty, with rows of a multiple of four
bytes, and with rows that need padding) and two heights.  `PictureSafe` is what is left without
a lock, in three parts:

- `WriterSafe`: as long as no two callbacks have run together and none was late, no block is
  deleted twice, used after its deletion or exceeded, and paintings cannot change that, since
  they only read;
- `PainterSafe`: a painting that meets no callback shows the last picture, from blocks that are
  there, and stays within them if the width is a multiple of four; otherwise the header makes
  the bitmap longer than the block;
- `NothingLeft`: when the windows are deleted so is the picture, although each destructor deletes
  the same globals and the other window's decoder may still call between the two.

Beyond that the code promises nothing: two callbacks can delete a block twice, a painting can
read a deleted one, and a late callback can write to a deleted block.  The model reaches all of
these.

### What is proved

`VideoWindowProofs` proves `WindowTypesStay` and `PictureStaysSafe` for all decoders,
widths and heights.  The inductive invariant follows the one decoder inside `videoCB`
and says at each place what the blocks are (`HeaderInv`, `DataInv`), and outside of it that they
are `Consistent`, both NULL or both of the last picture; `EndInv` says what they are at each place
of the destructor, `GoneInv` that a decoder whose window is deleted is not in `videoCB` and that
the last deletion leaves nothing, and `AliveInv` that windows are painted only before all this.
`NoPadding` is the arithmetic of the rows.

## Not modelled

- `rtspAPI::UnInit`, which the destructor of a static object runs when the process
  ends: it tells each session to stop and deletes it without waiting for its thread, so
  that what follows depends on how soon the runtime ends the threads.
- The stream buffer queue of `MyAPI.cpp`: it is made and freed, but the call that
  would fill it is commented out (`VideoWnd.cpp:228`) and the thread that would empty it
  is not created (`VideoWnd.cpp:183-189`).
- Login, accounts (beyond that a call may not be made) and the settings file: single calls of PJSIP and of Windows without a
  state of their own; the setup dialog copies fields.
- The decoder's and the codec's state, which is ffmpeg's; `PraseMetadata`, which nothing
  calls.
- `pjsua_app_cli.cpp`, `pjsua_app_legacy.cpp` and most of `pjsua_app_config.cpp`: the
  unmodified sample of PJSIP, whose console loops are not reached from the dialog.
- `simple_pjsua.cpp` and `thread_mutex.cpp`: not used.
- The libraries: of the repository's lines all but some 15000 are headers of PJSIP, live555
  and ffmpeg, whose sources are not here; of those 15000 about 9500 are the
  sample.  The modules describe the libraries as external, from how the code uses them.

## Running

`tlc -config fork.cfg MCResponseContext.tla` (the module of a run is given in
`PROJECT.json`), `tlapm ResponseContextProofs.tla`, `tlapm EventBufferProofs.tla`,
`tlapm SipAppProofs.tla`, and so on for the modules whose names end in `Proofs`.
