# lad-translate: specifications, model checking and proofs

lad-translate listens to one speaker in a LiveKit room, recognises the speech as
it is spoken, cuts it into phrases, translates each phrase into several
languages, synthesises them and publishes one audio track per language; an
audience joins from a phone. This directory specifies the parts of it that hold
state and meet other parts: the modules are written from the code under
`src/src/lad_translate/` and `src/tools/`, checked with TLC on small instances,
and every safety property that is checked is also proved, with TLAPS, for every
value of the constants.

Paths below are relative to `src/src/lad_translate/` unless they start with
`tools/`.

## 1. The system

One process (`tools/serve_session.py`) runs one session, as tasks of one asyncio
loop. Other processes share only the database and the media server with it: the
join API, other services, replays of a recording (`tools/session_live.py`), and
the pages in the browsers of speaker and listeners.

    speaker's page, laptop --source track--> LiveKit room
                                                |
    room --source_frames--> BacklogGuard --drain--> recogniser --hypotheses--> chunker
                                                                                  |
     room <--push-- worker of each language <--queue-- translate_many <--phrase---+
       |
       +--language tracks--> listener's page --join, leave--> join API
                                                                 |
    serve_session, session_live --create, mark_live, end, transcripts--> session tables

| Component | State | Operations | Hard behaviour |
|---|---|---|---|
| Backpressure guard, `session/backpressure.py` | buffer, newest audio, wake-up event, closed flag, counters | `push`, `_shed_if_behind`, `close`, `drain`, `feed`, `guarded` | feeder and drain interleave at every await; shedding at the limit; the source failing or the recogniser abandoning the stream |
| Recogniser, FastConformer, `adapters/stt_fastconformer.py` | step, cursor, held frames, pending audio, word clock, last emitted text | `offer`, `flush`, `retain_from`, `drop_before`, `stamp`, `transcribe` | two index systems that must agree for hours; a first step unlike the rest; the tail; transcripts that are revised |
| Recogniser, Whisper, `adapters/stt_whisper.py` | window, locked text, quiet time, passes over budget | `transcribe`, `_transcribe_buffer`, `_note_pass_cost` | utterances closed at a pause or a full window; passes that hear nothing |
| Recogniser, Qwen3, `adapters/stt_qwen3.py` | buffer, last text | `transcribe` | a vendor's streaming call |
| Phrase chunker, `chunker/` | agreement window, first sightings, committed count, contradiction flag, audio cursor | `feed`, `tick`, `flush`, `add`, `stable_prefix`, `commit`, `find_boundary` | transcripts that are revised after a phrase was spoken; time that passes during a dispatch |
| Session pipeline, `session/pipeline.py` | tasks, stop event, reason, failure, worker queues | `run`, `_pump`, `_dispatch`, `_watchdog`, `_LanguageWorker._run`, `_shutdown`, `_settle` | cancellation and failure at any await, one language that stalls, order of shutdown |
| Drift control, `session/drift.py` | playout depth, speed and counters per language | `observe`, `speed_for`, `should_skip`, `note_skipped` | a decision taken before the audio it is about is made |
| Room transport, `session/room.py` | the Room, the source track, tracks, audio clock | `connect`, `wait_for_source`, `source_frames`, `publish_languages`, `push`, `close` | a source that comes before, during or after connecting; a bounded playout queue |
| Latency recorder, `obs/latency.py` | open traces, samples | `open_chunk`, `mark`, `_close`, `_append` | traces that never close |
| Translation, `adapters/mt_*.py` | routing, loaded models, executors | `translate_many`, `_resolve`, `_load`, `close` | jobs in threads that share models; languages and backends that fail separately |
| Synthesis, `adapters/tts_*.py` | loaded voices, a thread and a queue | `synthesise` | the generator abandoned while its thread produces |
| Session tables, `db/sessions.py` | `translation_sessions`, `session_listeners`, `session_transcripts` | `create_session`, `mark_live`, `end_session`, `live_sessions`, `get_session`, `listener_joined`, `listener_left`, `active_listeners`, `record_transcript`, `transcript` | several programs with nothing between them but single statements; crashes |
| Service, `tools/serve_session.py`; replay, `tools/session_live.py` | their place in their start-up | supersede or take up, create, go live, run | two programs for one room, death at any statement |
| Join API, `api/join.py`, with `api/rooms.py` and `api/tokens.py` | none of its own | find, join, leave, grant the microphone | what it read is old when it acts; a look into the room that fails |
| Listener page, `api/static/join.js` | room, listener id, wanted track, timer | load, choose, change, retry, leave | answers and events that arrive after the page moved on |
| Speaker page, `api/static/speak.js` | stream, room, meter | start, stop, retry, cleanup | the same, with a microphone to release |
| Tenant resolution, `db/tenancy.py` | cache of records | `resolve`, `invalidate` | called by no program here |
| Registry, logging, migrations, developer tools | none, or none that changes | | pure functions and I/O |

What makes each correct is stated by the properties in section 3; what could go
wrong, line by line, is the list of hazards in `PROJECT.json`.

## 2. The modules

| Module | Models | Proofs |
|---|---|---|
| `LossyFifo` | what the guard promises, as an abstract queue | |
| `BacklogGuard` | `session/backpressure.py` with `TranslationRoom.source_frames` as its source | `BacklogGuardProofs` |
| `PhraseChunker` (`MCPhraseChunker`) | `chunker/` and the `_pump` loop that drives it, and the recogniser's `WordClock` | `PhraseChunkerProofs` |
| `Session` (`MCSession`) | `session/pipeline.py` | `SessionProofs` |
| `FrameSchedule` | `ChunkSchedule`, `FrameWindow` and the order in which `transcribe` uses them | `RecogniserProofs` |
| `Recogniser` (`MCRecogniser`) | `transcribe` over the schedule: decoded transcripts, hypotheses, `WordClock`, the final | `RecogniserProofs` |
| `Playout` | one language from `_dispatch` to its track: `_speak` of `session/pipeline.py`, `session/drift.py`, `synthesise` of `adapters/tts_piper.py` and `adapters/tts_chatterbox.py` with its thread, `push` of `session/room.py`, `obs/latency.py` | `PlayoutProofs` |
| `Translation` | `adapters/mt_routing.py` over `mt_opus.py` and `mt_nllb.py`, their threads and models | `PhraseChunkerProofs` |
| `SessionStore` | `db/sessions.py` under `tools/serve_session.py`, `tools/session_live.py`, `api/join.py` and the page's departure reports | `SessionStoreProofs` |
| `Transcripts` (`MCSessionStore`) | `persist` and `record_transcript` over the same sessions | `SessionStoreProofs` |
| `ListenerPage` | `api/static/join.js`, its part of `api/join.py`, and its connection | `ListenerPageProofs` |
| `SourceRoom` | `api/static/speak.js` on several phones, `_issue_speaker`, the room inspection, the venue's laptop, `TranslationRoom.connect` and `wait_for_source` | `SourceRoomProofs` |
| `WhisperWindow` | the sliding window of `adapters/stt_whisper.py` and its warning | `RecogniserProofs` |

Two compositions extend what they compose: `Recogniser` is `FrameSchedule` with
transcripts, and `Transcripts` is `SessionStore` with the rows its programs
write. Each is proved to implement the module it extends, so that what is proved
of that holds of it. The proofs of `WhisperWindow` are kept with those of the
other recogniser, and those of `Translation` with those of the phrases it is
given; their state machines are called `WSpec` and `TSpec` so that one module can
extend both.

**Granularity.** asyncio runs the code between two awaits without
interruption, and a browser the code between two turns of its event loop: so in
`BacklogGuard`, `Session`, `Playout`, `ListenerPage` and `SourceRoom` an action is
exactly that stretch, and awaiting is a state (`run`, `pump`, `worker[l].at`,
`worker.at`, `consumer`, `join[c].at`, `attempt[c].at`). The synthesiser's thread
runs beside the loop and shares one queue with it; each of its puts is an action.
In `Translation` the threads of the executors run beside the loop; a job's steps
are taking a thread, taking a worker of its model, and returning. In
`SessionStore` and `Transcripts` an action is one SQL statement, which PostgreSQL
makes atomic. In `PhraseChunker`, `FrameSchedule`, `Recogniser` and
`WhisperWindow` one generator owns the state and an action is one call, or one
turn of a loop.

Each module also holds variants of some of its definitions (`KeepsOldest`,
`NoWake`, `KeepsMic`, ...) that no specification uses: each is a
plausible slip in the code, and `PROJECT.json` says under `mutants` which
definition it stands in for and which property then fails. They show that the
properties are about the code and could be broken by it.

**Correspondence.**

- `BacklogGuard`: `buffer`, `newest`, `arrived`, `closed` and the six counters
  are the fields of `BacklogGuard` and `BacklogStats`; `feeder` and `consumer`
  are the task running `feed()` and the recogniser's side of `drain()` and
  `guarded()`. `Push` is `push` with the shed it ends in; `SourceEnds`,
  `SourceFails` and `FeederCancelled` are the ways out of `feed`, each through
  its `finally`; `DrainYields`, `DrainReturns`, `DrainWaits` are the three ways
  one turn of `drain` goes; `Abandon` is `guarded`'s `finally`. `delivered` and
  `shedAt` are histories. Seconds are whole ticks.
- `PhraseChunker`: `Feed`, `Tick` and `Flush` are the chunker's three calls, and
  compute the phrases the code would return, all of them, as `TryEmit` or
  `EmitAll`. `Dispatch` is one turn of `_pump`'s loops over those phrases, during
  which time may pass (`Pass`). A token is a normalised word and whether it
  closes a clause. Audio positions are in twelfths of a tick so that
  interpolation divides exactly.
- `Session`: `run` is the program counter of `TranslationSession.run` and
  `_shutdown`; `pump`, `watchdog` and `worker[l]` are the tasks it creates;
  `queue[l]` is a worker's `_queue`, `Stop` the `None` that ends it. `Interrupt`
  cancels `run` in its race, `InterruptShutdown` the worker `_shutdown` waits for,
  whose task awaiting it cancels with itself. `fate` and
  `published` are histories of what each language did with each phrase.
- `FrameSchedule`: the variables are `ChunkSchedule.step`, `.cursor`,
  `FrameWindow.origin` and `.total`, and the list of plans one `offer` returned.
- `Recogniser`: `text`, `lastPlanEnd` and `lastEmitted` are the locals of
  `transcribe` and its `_StreamState`; `clock` is `WordClock`'s two lists as one;
  `emitted` is the hypothesis yielded last. What a step decodes is any of
  `Transcripts`; with `Decoder` set to `"rnnt"` it only grows. `heard` is a history.
- `SessionStore`: a row of each table per program and per visit; `program` is how
  far `serve_session` or `session_live` has come, `todo` what its loop has still
  to look at, `runs` the session it runs, its own or one it took up. The page's
  reports are `beacons` that arrive later, twice, or never.
- `Transcripts`: `rows` is the table, by session and `chunk_id`; `chunk` the last
  number each program's chunker gave. A text stands for whose phrase it is.
- `ListenerPage`: `room`, `listenerId`, `wanted`, `timer`, `view` and `status` are
  the page's variables and its elements; `join[c]` is the promise chain of one
  tap, `conn[c]`, `track[c]` the Room it made and the wanted track in it. `row` is
  `session_listeners`. `hasty`, `retries`, `lost`, `hides`, `early`, `alarm` are
  histories that the properties' exceptions name.
- `SourceRoom`: `page` holds the variables of each phone's page, `attempt[c]` a
  promise chain of its "Start", `conn[c]` the Room it made, `mics` the open
  streams. A room outlives its sessions: `attempt[c].under` is the one an attempt
  was granted under, from whose id its identity is made, so `SameName` is about
  attempts of one session. `Silence` is what the media server does to the track of
  whoever leaves. `source` is each participant's source track as the service's Room
  knows it; `joined` and `ready` are `TranslationRoom`'s. `hasty` and `unaware`,
  pairs of an attempt and a source it was granted without sight of, are histories.
- `Translation`: `route` is `_assignment`, `disk` the models that were fetched,
  `pairs` Opus-MT's `_pairs`; `job[p][u]` is a call in an executor. A text is the
  language it is in.
- `WhisperWindow`: `window` is `_buffer`, as where it starts and the sums of its
  frames' levels: a frame's level is what `_track_silence` compares with
  `silence_rms`, a window's mean what `_transcribe_buffer` compares with
  `speech_rms` (both squared, so that means add up). `locked` is `_locked_text`,
  `overruns` and `warned` are the fields of `_note_pass_cost`; `vain`, the passes
  since the last hypothesis that asked the model and heard nothing, is a history.
  A text stands for the stretch of audio it was heard in.
- `Playout`: `worker` is where `_speak` and the generator it iterates stand, with
  the block `synthesise` yields and the one it reads ahead; `thread` and `pipe`
  are `produce` and the queue it fills; `drift` is `LanguageDrift`; `open`,
  `marks`, `samples` are the recorder's; `queued` is the source's
  `queued_duration`. `Translated` is the phrase's entry, or lack of one, in what
  `translate_many` returned. `Session` has several languages, cancellation and
  shutdown with synthesis as one call; `Playout` has one language, no shutdown,
  and the steps inside that call. `fate`, `heard` and `since` are histories.

`PROJECT.json` gives the source lines of every definition under `map`.

## 3. The runs

| Run | Specification and bounds | What it shows |
|---|---|---|
| `backlog` | `BacklogGuard`, lag limit 5, target 2, frames of 1 to 3, five frames | every frame is delivered, counted or buffered; lag stays under the limit unless only the newest frame is left; sheds are spaced; no wake-up is lost; the guard implements `LossyFifo` |
| `chunker` | `PhraseChunker`, agreement of 2, phrases of 2 to 4 words, transcripts of up to 5, five hypotheses each revising and adding at most one word, one tick of time | only agreed words are spoken, each in one phrase and in order; phrases are well cut; every take-back is reported; nothing agreed is left after a final, a silence or the flush; spans of timed words go forward |
| `session` | `Session`, two languages of which one may hang, two phrases, one block each | phrases are spoken in order and once; a session that returns abandoned nothing but the phrase whose translation was cut short; the room outlives speech; the outcome is the true one; a hung language holds up no other; the session ends while synthesis answers |
| `session_cap` | the same, one phrase | **violation** of `CapEndsSession`, section 6 |
| `schedule` | `Recogniser`, 24 frames in blocks of up to 9, chunk 3 then 5, shift 2 then 4, cache 1 then 5, five transcripts of up to three words, revised at will | the window holds what each step slices and no more than the next needs; no frame is passed over; history is complete; every word has the time of the step that first had it there; the final has all the words and all the audio |
| `playout` | `Playout`, three phrases of up to 4 ticks of audio, blocks of up to 2, speed-up above 1, skip from 2, playout queue of 4, 2 samples kept | a language is never further behind than the skip threshold and the phrase it is saying; traces, samples and counters say what was heard; every phrase is dealt with |
| `translation` | `Translation`, three languages, two of them of a family and known to NLLB, every routing, every set of models, two phrases | each language is given each phrase once, in order, in its own language, blank only for a failure of its own job; no job waits for another |
| `store` | `Transcripts`, a service and a replay for one room, a service for another, one visit, clock of two values, one phrase each in the shared room | a room is taken over whole and no other; what was settled stays closed unless two programs ran it; bills and departures are final; transcripts pair a text with its own translation, with the same exception |
| `dead_session` | two services for one room, one for another, no visit | **violation** of `NoDeadSessionOffered`, section 6 |
| `listener_page` | `ListenerPage`, two taps, two languages, one retry or hiding | the page holds one connection; the count of listeners differs from who listens only as explained; the no-audio error is a false alarm only where the track came early; nobody is left waiting |
| `source_room` | `SourceRoom`, two phones, two attempts, two sessions of the room, the laptop | two phones of one session are never heard at once, and one is heard beside anybody else only if its grant did not see him; the microphone is released; a speaker who is not heard is told; the service finds a source that stays |
| `whisper` | `WhisperWindow`, seven frames, window of 3, pause of 2, gaps of up to 1, frames quiet, loud, or neither | final text heads every later hypothesis and the audio clock never runs back; each frame over the cap at which the window was loud enough to ask about cost a pass in vain; two passes over budget in a row are said |

**Why the bounds are enough.** Each was chosen so that the interesting cases
occur, and the mutants confirm that they do. For all other bounds there are the
proofs of section 4; only the liveness properties rest on these alone.

- `backlog`: frames of 3 exceed the target of 2, so that a shed may end on the
  newest frame alone; five frames give two sheds, and a delivery before, between
  and after them. `MaxFrames` bounds only the session's length.
- `chunker`: five hypotheses are what it takes to agree, commit, shrink below
  the committed words, grow back differently and commit again; texts of 5 words
  give a phrase at `MaxWords` with a remainder. `MaxDrop`, `MaxAdd` bound one
  revision, which may happen again at the next hypothesis. One tick is enough
  for `max_wait_s` and `silence_commit_s`, both one tick, to be over or not.
- `session`: two languages, of which a set chosen at the start never answers, are
  the least that can disturb each other; two phrases make a queue in which one is
  in hand and one waits. `MayHang` holds one language, so that the other is
  always there to be held up.
- `schedule`: four steps past the first, block boundaries at every offset to
  chunk boundaries, overlapping chunks; transcripts that agree, differ at the
  front, at the back, and not at all.
- `playout`: three phrases against two samples make the cap drop one; a phrase of
  4 ticks after one still queued passes the threshold, so that the third is
  skipped; blocks of 2 against a queue of 4 make a push wait.
- `translation`: three languages give a pair model, two that share a family's
  model, and any mixture with NLLB; two phrases are what it takes for one's jobs
  to be in the way of the next's.
- `store`: three programs have every pair of relations the code tells apart (same
  room, other room, service and replay, started while the other loads). A clock
  of two values separates what is equal from what is later.
- `listener_page`: two taps are two joins that may be under way at once, the
  first with its answer outstanding when the second begins; one detour is enough
  to leave a join behind, and each further one meets the same page.
- `source_room`: two attempts may be two phones, or one phone twice, under one
  session or under two; a third session would have no attempt of its own.
- `whisper`: seven frames are two full windows and a pause, with a gap anywhere.
  The levels are under both thresholds, between them, and above both, so that a
  window may be neither quiet nor asked about, and a mixed one either.

**Deadlock.** Every run has `CHECK_DEADLOCK FALSE`: a session ends, a stream is
over, a page is closed, and a bounded source stops. What must not stop for good
is stated by the liveness properties instead.

**Fairness**, and why the code justifies it.

- `BacklogGuard`: weak fairness of `Drain` and of `FeederCancelled`. The loop
  runs each ready task, and recognisers take frames in an `async for`. There is
  no fairness of `Push`, `SourceEnds` or `Abandon`.
- `Session`: weak fairness of `run` itself, of the watchdog, whose duration cap
  is a timer, of a cancelled pump, and of each worker's own steps. Synthesis and
  push are fair only for a language outside `hung`. The recogniser, the
  translator and the operator owe nothing.
- `Playout`: weak fairness of the worker's steps together, of the thread's coming
  to an end, and of playing. Nothing obliges the speaker, the translator, or a
  failure of the track.
- `ListenerPage`: weak fairness of the timer and of the answer, good or bad, to
  each request and connection: `fetch` and `connect` settle. No track need come
  and no event of the media server either.
- `SourceRoom`: weak fairness of each event a Room has to deliver (a track
  published or subscribed, a disconnection) and of a publication's coming to an
  end, well or badly. No speaker need speak, stop or come back.
- The other modules have safety properties only, and no fairness.

## 4. What is proved

Every invariant and every action property of the passing runs is a theorem, as is
each module's implementation of the one it refines or extends. The eight proof
modules hold for every value of the constants, under the assumptions named in the
modules; TLC evaluates those assumptions on every run.

**The guard** (`BacklogAssumption`: naturals, with the target below the limit, as
`__init__` demands, and frames at least one tick long). The inductive invariant
`IInv` adds three facts to the invariants proved. `Ordered`: buffered frames lie
in the past, in order, without which the frame a shed stops at would say nothing
about the frames behind it. `SettledSince`: the oldest frame is at most
`LagAfterShed` older than the last shed; this is what spaces sheds, and no single
state shows it. `FeederTracked`: the guard is closed exactly when the feeder is
over, and a feeder is cancelled only by an abandoned stream; from it follows that
`guarded` can tell its caller how the source ended. `KeptFromSuffix`,
`AppendOrdered` and `PushShape` say what one push leaves of the buffer. Proved:
`TypeOK`, `FramesAccounted`, `LagBounded`, `ShedSpacing`; that every drop is
explained by the recorded peak (`DropsExplained`) and every end by how the source
ended (`EndsExplained`); and that `BacklogGuard` implements `LossyFifo`: a push
maps to `Offer`, a delivery to `Take`, the feeder's end to `End`, the rest to
stuttering.

**The schedule** (`GeometryAssumption`: positive chunks, shifts of at least one
frame and no longer than their chunk, any cache). `IInv` adds `Retained`, that
what was discarded lies before all the next step can need and that between two
batches exactly that much is kept, and `BatchComplete`, that a batch runs only
when no further step can be planned. The argument for `NeverDiverges` is that the
cursor only moves on, so a step planned later in a batch needs no more history
than the first did, and nothing is discarded until the batch has run. Proved:
`TypeOK`, `WindowFits` with its two parts `NeverDiverges` and `MemoryBounded`,
`EveryFrameHeard`, `HistoryComplete`. The assumption on the shifts is needed:
with a shift longer than the chunk frames would be passed over; NeMo's streaming
configuration never has one.

**The recogniser** (`TranscriptAssumption`: transcripts are sequences of words).
Every step of `Recogniser` is a step of `FrameSchedule` or leaves the schedule
alone (`ImplementsSchedule`), so the schedule's theorems hold of it
(`EncoderIsFedRight`). The invariant `LastPlanKept` says that `last_plan` is the
last step run; with `EveryFrameHeard`, that at the end the steps have had all of
the audio, it gives `FinalIsWhole`: neither fact alone does. For `StampsTrue`, `ClockFits`
says what was decoded since the last hypothesis: nothing, or that hypothesis
again, or what the flush has just decoded. `StampsFit` then compares each stamp
with the history of all steps: a word the clock shares with the new transcript
has stood since the step it was stamped with, since no transcript in between took
it back (`StampsStay`); one it does not share has stood since the step just made,
since otherwise the longest common prefix would have been longer (`StampIs`).

**The playout** (`PlayoutAssumption`: increasing thresholds, as `DriftPolicy`
demands; a playout queue longer than the skip threshold, as `session/room.py`
says it must be; blocks that fit into it). `DriftBounded` is inductive over
`TypeOK`: a decision to speak is made on a queue below `SkipAt` and starts a new
count of published audio, a push adds as much to the count as to the queue, and
playing only takes away. `RecordsTrue` needs the whole way of a phrase.
`GivenOnce`: until it is settled it is in one place of the queue or in the
worker's mouth, so no skip is counted twice and no sample taken twice. `Marked`:
a trace has the marks of the stage its phrase is in. `Piped`: the `None` is the
last of the pipe, comes when the thread is over, and nothing is left once it was
read. `AllAccounted`: what the thread made is what was published, what the worker
holds back and what is in the pipe; the sum over the pipe is a function that adds
it up from the front, whose existence each step carries on. Together the last two
say that a phrase whose thread is done and whose `None` was read was published to
its end (`SpokenWhole`). Proved: `TypeOK`, in which the caps on samples and on
queued audio are, `DriftBounded` and `RecordsTrue`.

**The store** (`StoreAssumption`: services and replays are different programs,
each for a room). Nothing holds a lock; what protects a row is the condition in
`end_session`'s statement, and what protects a room is what a program has not
done yet. So `IInv` says of each program what is still untrue of it: `Unborn`,
one that still lists has no session; `Cleared`, what it has looked at is of
another room or over; `Unsettled`, its session is not over before it is, unless
superseded or shared; and `Started`, no row begins in the future. Proved, for any
number of programs, rooms and visits: `TypeOK`, `TakesOverItsRoom`,
`SettledIsClosed`, `ClosedRowsAreFinal`; that `Transcripts` implements
`SessionStore`; and `TranscriptsPaired`.

**The chunker** (`ChunkerAssumption`: an agreement and phrases of at least one
word, as the constructors demand; `MinWords` not above `MaxWords`). `Leads` says what the phrases of one call are: consecutive words, from the
committed ones on and no further than the window agrees, with consecutive numbers
and spans; `TryEmitIs` and `EmitAllIs` show it of the one phrase and of the blocks
that empty the buffer. `Emission` is what the three calls have in common: they
commit such phrases in the words of the hypothesis they leave in `_last_hyp`, and
the flag says if those take back spoken ones.
`WindowIsOfLastHyp`: the window ends in that hypothesis, and holds nothing else
after a final; hence what the window agrees on is a prefix of that hypothesis,
and what is spoken a prefix of it until a call has said otherwise.
`StampsInOrder`: with word timings the stamps go up, end by the audio received,
and those not committed lie at or behind the cursor; hence the spans. Proved:
`TypeOK`, `OnlyAgreedWords`, `PhraseShape`, `RevisionsReported`,
`NothingLeftStable`, `SpansForward`.

**Translation** (`TranslationAssumption`: finitely many languages, and names of
families and models that are not languages). `Asked`: jobs that still run are
those of the last phrase, and a job done by a pair's model has said that pair's
language. `Waited`: while the pipeline waits, every language has a job, its own or
its family's. `Answers`: what a worker was given so far is one entry per phrase,
its own language's text or, where its job failed, nothing. Proved:
`EveryLanguageAnswered` and, since a pool and a model have as many threads and
workers as languages that share them and a language has one job under way
(`OneIsFree`), `NothingQueues`.

**The session** (`SessionAssumption`: the targets are different languages). No
lock separates the tasks; the order of `_shutdown` does. `Staged` says what is
over at each stage of `run()`: no worker is told before the pump is over, none is
left when the room is closed. `Stops`: a worker that was told has its `Stop` last
in its queue, until it has taken it with nothing left behind. Interrupted sessions
are excepted from both, since they leave the pump running. `Decided`: phrases are
decided on in order and for all languages at once, all but the last before the
next comes. `Kept`: a phrase that was given and not settled is in its queue or its
mouth. `InOrder`: what a language has published, has in its mouth and has queued
goes up. `CutEffect` is what an interrupt of `_shutdown` does to a worker. Proved: `TypeOK`, `RoomOutlivesSpeech`, `OutcomeTrue`,
`NothingAbandoned`, `SpokenInOrder`.

**The listener's page** (`PageAssumption`: `None` is no tap and no language).
`Orderly`, which is the heart of it, holds as long as no listener has moved on
during a join: one promise chain is under way at most, none while the languages
are shown or the timer runs, and the chain that has its grant owns the page's
room, the only one that is open. `Owned`, that a tap without an answer owns
nothing and `listenerId` is the room's, holds of hasty listeners too.
`AdriftExplained` counts: no step sets more than one row adrift, and one that does
is a failed join, a Retry, a lost report or a hidden page. `AlarmIsEarly`: a timer
that runs while something is heard was armed after it came. Proved: `OneStream`,
`CountExplained`, `FalseAlarmExplained`.

**The speakers' room** (`RoomAssumption`: the laptop is no phone). `OneSource`
rests on the media server, which keeps one participant of a name: by `Sole`,
whoever has a track is connected, of the phones of one session one at most is, and
whoever may be heard beside a source was granted unaware of it.
`MicReleased` rests on the page: by `Held`, a page whose speaker was not hasty has
one attempt pending at most, only while it shows itself live, and one that still
asks for its microphone shares its page with no open one. `Connections`: an
attempt without its grant has no Room. Proved: both, for any number of phones and
attempts.

**The Whisper window** (`WindowAssumption`: a window and a pause of at least one
frame; levels and thresholds are naturals, in no particular order). `Forward`: the audio covered ends before the window does, which ends
before the next frame. `Cumulative`: what was declared final is what is locked,
and heads the hypothesis. `Judged`: what is counted is the costly passes in a row.
`Capped`: the bound of `CostIsKnown`, by frames: one that finds the window over
its cap is followed by a pass, which asks if the window is loud enough then, and
counts in `vain` unless it empties the window (`OneMoreFrame`). Proved:
`HypothesesGrow`, `CostIsKnown`.

**How it is argued.** Each module has one lemma per action, or per group of
actions that touch the same variables, and one that adds them up. That a bounded
set of naturals has a greatest element (`Highest`), on which `Max`, `Min` and the
longest common prefix rest, is shown without induction on an operator: strict
inclusion of finite sets is well-founded (`FS_StrictSubsetOrderingWellFounded`,
which the library states of a fixed set), and of the sets of those above one
element a smallest is empty.

**Only model-checked** is liveness: `NoWakeUpLost`, `OthersFinish`, `SessionEnds`,
`PhraseEnds`, `NotLeftWaiting`, `SpeakerTold`, `SourceFound`. Each rests on the
fairness of actions, and so on `ENABLED`, which the provers do not reason about.

## 5. What is not modelled, and why

- What the models compute: tensors, the preprocessor's arithmetic, texts,
  voices. Their results are free choices: a hypothesis may be any text, a
  translation may be missing or blank, synthesis may fail after any block.
- Punctuation, abbreviations and scripts beyond whether a token closes a clause.
- LiveKit, PostgreSQL and the browser: modelled by what the code relies on.
- `max_idle_s` is a timer that may fire at any time, as is the operator's
  interrupt. The latency figures and the reason string are left out;
  which stages a trace has and which phrases are sampled are in `Playout`.
- The tenant column, which has one value here. Tenant resolution
  (`db/tenancy.py`): its cache is constructed in the code but no program of the
  repository calls it, so there is no interleaving of callers to model.
- `translate_many`, `synthesise` and the drift controller appear in `Session` as
  calls that answer late, partly, not at all, or with a failure; `Translation`
  and `Playout` have what happens inside. `Playout` has
  a synthesiser that hands over blocks, Piper's, or whole phrases, Chatterbox's; a
  thread whose reader has left runs on unseen.
- In `Playout`, a block without samples, of which `push` makes nothing
  (`session/room.py:291-292`), and a thread of Piper's that fails in its import or
  its configuration (`adapters/tts_piper.py:165-173`), before the `try` whose
  `finally` puts the `None`: its reader waits for ever, so `PhraseEnds` is about
  threads that reach it.
- A replay told not to store (`--no-store`), or one that goes on without the store
  when taking up a session fails: to the tables it is a replay that died there,
  which `SessionStore` has.
- In `SourceRoom`, the blank page between a Retry and the answer to the `load` it
  begins: the two are one action.
- The wording of pages and status lines: `ListenerPage` tells "connecting",
  "waiting for audio" and the rest apart, `SourceRoom` "Live" and the rest.
- The Qwen3 recogniser: written for a GPU, never run, and without a window or a
  schedule of its own.
- Token signatures and lifetimes, registry, logging, migrations, demonstration
  and measuring tools (`tools/demo.sh`, `tools/e2e.py`,
  `tools/chunker_replay.py`): no state that changes.

## 6. Where code and text disagree

Two disagreements are shown by a run of their own:

1. **The duration cap does not end a session that hangs** (`session_cap`).
   `_shutdown` awaits each worker without a limit, with the watchdog cancelled. A
   synthesis or a push that never answers keeps `run()` from returning;
   `config.py:85` says sessions end at the cap regardless of state.
2. **A dead session may be offered** (`dead_session`). `mark_live` sets the status
   of a session that has ended: one superseded while its service was loading
   comes back live, cannot be ended again, and makes each later service of its
   room fail with `LookupError`.

The models reach the following too. No property denies them; where one would
have, its exception names them.

3. **Silence is not noticed.** `tick` runs only after a hypothesis
   has arrived, and the `feed` before it has just reset the clock `tick` tests.
   Both streaming recognisers yield only when their text changes, so a speaker
   who stops leaves the last agreed phrase in the buffer until they resume, which
   is what `chunker/chunker.py:57-60` says `tick` prevents.
4. **Transcript rows the schema refuses.** Without word timings a
   phrase's end is interpolated over the transcript of its hypothesis. When that
   transcript has grown, the end may lie before the start, computed from an
   earlier one; the table's `CHECK (t_audio_end >= t_audio_start)` refuses the
   row and `persist` swallows the error. `SpansForward` is about timed words.
5. **The Whisper window is not capped.** A pass over a full window
   that hears nothing while there is sound continues without emptying it;
   `stt_whisper.py:114` calls `max_window_s` a hard cap. Nor does a window whose
   frames are above `silence_rms` while its level stays under `speech_rms`: it is
   never quiet and never asked about, and grows at no cost that a warning would
   show. `CostIsKnown` says which of the frames over the cap cost a pass.
6. **A replay mixes transcripts.** `session_live` takes up the session it finds
   in its room and numbers its phrases from the start; the upsert replaces the
   translation of a row but not its source text (`db/sessions.py:272-275`).
   `TranscriptsPaired` and `SettledIsClosed` except sessions that two programs ran.
7. **The listener count is no floor.** A join whose answer is lost, a Retry, and
   a lost report leave a row active for ever; `api/join.py:387` calls the counts
   a floor. `CountExplained` says what each surplus row is owed to.
8. **A listener who moves on during a join** may be left with a second
   connection that nothing closes, and its row (`hasty` in `ListenerPage`).
9. **The no-audio error may be shown to one who hears**: a track that came while
   the join was still starting is not there to stop the timer armed afterwards
   (`early` in `ListenerPage`).
10. **A speaker who stops, or is failed, while an attempt is pending** gets the
    microphone opened again by the attempt's next step (`hasty` in `SourceRoom`).
11. **Two may speak at once**, which `api/join.py:220-221` means to refuse, when
    the inspection of the room failed or the other came after the grant (`unaware`
    in `SourceRoom`): a phone and the laptop, or two phones granted under
    different sessions of the room, before and after a restart, since a phone's
    identity is made from the session's id (`api/join.py:230-233`). Two phones of
    one session may not: they have one name, and the second turns out the first.
12. **The source is never unset.** `_source_ready` and `_source_track` stay when the
    track goes, so a session that starts then listens to a track that is gone.

## 7. Plan

Done, in this order, the most important first: the guard and its abstraction;
the chunker; the session; the frame schedule; the store; the Whisper window; the
playout of one language; the proofs of guard, schedule and playout. Then the
pages of listener and speaker with the room between them; translation in threads;
the recogniser over its schedule and the transcripts over the store, each with
the proof that it implements what it extends, and the proofs of the store. Then
the proofs of the rest: session, records of the playout, stamps of the
recogniser, chunker, translation, Whisper's window and both pages.

What is left to model is small, and each piece would add to a module that is
there: the clock that `max_idle_s` shares with the recogniser, in `Session`; the
composition of `PhraseChunker`'s phrases with `Session`'s dispatch, and of
`BacklogGuard` with `WhisperWindow`, so that shed audio is what the window's gaps
come from.

Proofs to come:

1. What one language of `Session` promises as an abstract line of phrases, to
   which both `Session` and `Playout` map: `Session` has synthesis as one call,
   `Playout` the steps inside it, and so far only the text of section 2 says
   that they fit together.
2. The safety parts of the liveness properties: what the states in which
   `PhraseEnds` or `SessionEnds` could be stuck have in common, as invariants.
