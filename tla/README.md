# Covermail in TLA+

Covermail hides a short encrypted message in ordinary-looking text: a sender
draws the tokens of a text from a language model so that they spell the bits of
a packet, and a receiver with the same model reads the bits back. A local web
application runs the heavy model work in jobs. These modules model the parts
where the program is hardest to get right: the **job manager** with its readers,
the **carrier codec** with its arithmetic coders, the **model adapter** with its
cache and its ranking, the **identity store**, the **qualification** and the
**page's writing form**. TLC checks them on small instances and TLAPS proves
their central properties for all.

Paths below are relative to `src/covermail/` of the repository.

## 1. Inventory

| Component | State | Operations | Hard because | Correct when |
|---|---|---|---|---|
| Job manager, `web/jobs.py` | `_jobs`, the executor, each job's state, result, error, flag, events | `submit`, `cancel`, `discard`, `shutdown` under a lock; `_run` in one thread | the worker settles jobs without the lock; a transition is two writes | limits hold, a job settles once and for good, its outcome is backed by its data, every job settles |
| Work functions, `web/app.py` | the job's log, annotations, counters of the token callback | `encode_work`, `decode_work` and their callbacks | failure or cancellation at any step | states in order, sections and bit counts right |
| Event stream, `web/app.py`, `Job.wait` | a reader's position and batch | `job_events`, `get_job`, `delete_job` | reads state, log and terminal flag at different times; blocks on a condition | no event lost or repeated, the stream ends, the view fits the state |
| Arithmetic coder, `codec/arithmetic.py` | interval, code, pending bits | `symbol` of the decoder and of the encoder | rounding, middle shifts, register width | encoder undoes decoder |
| Bit framing, `codec/bits.py` | packet bits, cached suffix, collected bits | `bit`, `append`, `complete_bytes` | random bits past the end, read twice | the same bit each time |
| Carrier codec, `codec/generative.py`, `codec/carrier.py` | tokens, both coders, confirmed bits, the receiver's target | `encode_carrier`, `decode_carrier` | sections share one bit stream and one token may span two; the receiver learns the length on the way | an intact text gives the packet, a cut one nothing |
| Packet header, `protocol/` | none | LEB128, bounds | growing prefixes | canonical, bounded |
| Inner frame, `protocol/inner_frame.py` | none | `pack_inner`, `unpack_inner` | bounded decompression | exact inverse |
| Message service, `service.py`, `crypto/hpke.py` | none | encrypt, decrypt | binding of A and B | only the same A, B, C open |
| Frequencies, candidates, `codec/` | none | tables from logits, greedy finish | exact rounding on both ends, any split of ties | shares fair, total exact, ranking that of a full sort |
| Model adapter, `models/mlx_adapter.py` | key/value cache and last context | `_next_logits`, `_ranked_logits` | cache staleness, ties at the cut | logits are those of the context, ranking exact |
| Resident model, `web/app.py` `LocalModel` | adapter and its artifact key | `bind` | replaced between addresses | the adapter matches the key |
| Identity store, `crypto/private_store.py` | directories and their files | `save_identity`, `load_identity_address`, `unlock_identity`, the listing | failure, crash, power loss, concurrent savers | whole and of one creator, or absent |
| Artifacts, `models/manifest.py` | directories | verify, materialise | partial failure | only verified files |
| Qualification, `models/qualification.py` | trials, shared budget | generate, verify | retries, budget | bundle round-trips |
| Web page, `web/static/app.js` | inspected address, confirmation, shown text and secret | forms and streams | late answers, overlapping submissions | only confirmed addresses, what is ready is whole |
| Address, fingerprint, prompts, self-test, command line | none | sequential | the terminal line feed of a carrier | unit tests |

The work functions are the jobs the manager runs; their token callbacks write
the log that streams read. The carrier codec is what they call; it asks the
model adapter for one table per token. `PROJECT.json` lists all components and
each hazard at its line.

## 2. Modules

    JobService          what a client is promised about a job      (abstract)
    JobManager          jobs.py: lock holder, worker, executor      implements JobService
      JobManager_proofs
      JobStream         EXTENDS JobManager with the readers
        JobStream_proofs
    ArithmeticCoder     arithmetic.py as operators
    PacketHeader        varint.py, packet.py as operators
    Carrier             EXTENDS both: sender, text, receiver
      SectionLabels     EXTENDS Carrier with the page's token labels
        Carrier_proofs  of the coder, the carrier and its labels
    Candidates          EXTENDS ArithmeticCoder: from logits to a table
      Candidates_proofs
    ModelAdapter        the key/value cache as operators
      LocalModel        EXTENDS it: the resident model and its jobs
        LocalModel_proofs
    IdentityDirectory   immutable identities, published at once    (abstract)
    IdentityStore       private_store.py                            implements it
      IdentityStore_proofs
    Qualification       trials, budget, bundle, verification
      Qualification_proofs
    WebPage             the writing form, with the server's jobs
      WebPage_proofs
    MC*                 constants for TLC

**JobManager.** `retained`, `born` are the keys and the insertion order of
`_jobs`; `state`, `cancelled`, `result`, `error`, `events` are the job's fields
(result and error by whether they are set, an event by its type). `future` and
`pool` are the executor's view; `worker` is where `_run` is, `Program` being the
order in which a work function calls `transition`, `emit` and its callback;
`loop` is the call that holds the lock. The handlers are `async def` on one event
loop and the lock covers each call of the manager, so one `loop` is enough. A
call is several actions where the worker can come in between: `submit` counts
(`SubmitCount`) and then trims and inserts (`SubmitAccept`, `SubmitClosed`,
`SubmitNoRoom`); `cancel` flags, cancels the future, writes the state, appends
the event; `transition` writes and appends. Trimming reads all states in one
step, where the code reads them one by one: a job that settles meanwhile can only
be trimmed too. A failure is possible in every step of a work function that
follows its first transition. A name of `Jobs` is a submission; one that will find unsettled
jobs in every place of the history needs none.

**JobStream.** A reader goes from `wait` to `blocked` or straight to `Collect`
(`Job.wait` holds the job's condition while it looks and blocks, which is one
action), to `yield`, to the `test` at the end of the loop. `Notify` is joined to
every step of `JobManager`: what appends an event wakes the blocked readers of
that job. `Timeout` is the 15 seconds. `Fetch` and `FetchBody` are the GET of a job
and its public view, whose fields are read after the state.

**Carrier.** One message. A token is its place in the table it was drawn from,
so tokenization is the identity here, an assumption: `_validate_round_trip`
refuses a text for which it does not hold, and `Check` may refuse. The model is
any choice of tables (`Choose`), the same on both ends while the visible prefix
is the same (`TableHere`); with a changed prefix the tables may be any. The
capsule is any bits (ciphertext), the suffix is drawn at random, the text is
intact, cut at a token, or has one token changed. Each iteration of a
renormalisation loop is an action (`DecodeShift`, `MirrorShift`, `EncodeShift`).
`Open` accepts the sender's header, capsule and prefix only: HPKE binds all
three. The bits of a LEB128 group and of a byte, register width, frequency total and
length limits are constants; the code's are 7, 8, 32, 2^15, 51 and 131072.

**SectionLabels.** The callback of `encode_work`, joined to the sender's steps.

**Candidates.** One call of `next_table` or `next_greedy_token`. The accelerator's
`argpartition` is any set of the wanted size with the best raw logits; what is not
visible or not copy-safe after the prefix is any set of tokens, and the decimal
exponentials are any positive weights by distance. `Quantized` is `quantize_logit`
with its ties to even, `Fetch` and `Rank` the loop of `_ranked_logits`, `Build`
`build_candidate_table`, `FrequencyCounts` the largest remainders; `RunningSum` is a
recursive function and no fold, so that the prover can open it. `SharesFair`
holds `IsTable` of what comes out: the assumption `Carrier` makes of its tables.

**ModelAdapter, LocalModel.** A context is a prompt and the visible tokens; a cache is
the context whose keys and values it holds, or `Broken` after a call that failed. What
the model computes is what its cache holds (`Filled`), not what it was asked: that the
two agree is `FreshLogits`. `LocalModel` is `bind` (`Reuse`, or `Verify` file by file,
then `Load`), the self-test and the sections of encodings and decodings, while files
change (`Replace`). A job that fails anywhere (`CallFails`, `Leave`) leaves the
resident adapter as it was then. The self-test compares one digest of a few tables:
`Transcript` is any function of the model's files and the payload prompt, and different
models may have the same. So a file that is replaced between its verification and the
loading is bound when it leaves those tables as they were; `swapped` remembers that it was,
which only the properties read. `RightModel` says what the code does guarantee: the
tables in any case, the files unless one was replaced in between. One assumption: no
rendered prompt is another one with a token more (each ends in the assistant's turn).

**IdentityStore.** A directory is the state of its three files and the call of
`save_identity` that made it; `saver` is where each call is. `Check` is
`exists()`, `Rename` publishes, `Raise`, `Unlink` and `RemoveDirectory` are the way out
after an error. That way may fail itself (`Escapes`, at any child or at the directory, and in
`mkdtemp` before it): the caller then gets the bare `OSError`, and what was not removed stays
as a hidden directory. A process may die (`Crash`) or the machine lose its power: a file
that was not synchronised may then be torn and a rename since the last synchronisation be
undone, which is what a journalling file system promises and no more (`PowerLoss`).
`lister` is `_list_identities`, `opener` the two reads of a decoding, when it is asked
for and when the worker comes to it. In the abstract `IdentityDirectory` an identity
is unpublished or owned by one creator for good, except that a power loss may take the
newest ones: the code synchronises files and not the directory, so a success is only
durable once another file was synchronised.

**Qualification.** `at` and `trial` are where the generation is, `counter` the list that
the three wrapped models share, `rejected` and `bundle` what it writes; the steps of a
trial are the calls of `encode_carrier`. `Arrivals` is what may become of a bundle on
its way: nothing, or one change, of the head (format, version, address, model, revision), of
the number of cases, or in one case of its id or brief, of an encoding, of the packet, of
A/B/C, or of D. Another D may leave the text fit or not: the verification looks at the whole
text (length, control characters, the tokenizer's round trip) before it ignores D.
`received` is the verification on another installation, whose own self-test (`VerifyLoad`)
may differ: the head and the number of cases at once (`Deliver`), the corpus and the
encodings of a case before its profile is loaded, the packet after it.

**WebPage.** The event handlers of the writing form. They run one at a time and give way
at each `await`, so an action is what runs between two of them: `Submit` and `Inspected`
include the request that follows at once. `box` is not whether the box is ticked
but for which address, so that `ConfirmedSent` can say what a tick meant. Server and
jobs are reduced to a queue, as `JobManager` has one worker and is checked on its own.

## 3. Runs

| Run | Instance | Shows |
|---|---|---|
| `JobManager` | 3 jobs, history of 2, 2 pending | `HistoryBounded`, `HistoryNeverFull`, `ActiveKept` and the refinement `ImplementsService` under every interleaving of submit, trim, cancel, discard, shutdown and the worker |
| `JobLife` | 2 jobs, history of 2, 3 pending, logs of 6 | `ModelSerialised`, `OutcomeBacked`, `TerminalStable`, `CancelBites` with two unsettled jobs, one waiting behind the other; `JobSettles` under fairness. Pending above the history's size reaches "local job history is full" |
| `JobStream` | 1 job, 1 reader, cursors 0 and 3 | `StreamFaithful`, `EndMissesOnlyOutcome`, `ViewTells`; `StreamEnds` under fairness |
| `Carrier` | 4-bit registers, total 4, 2-bit bytes, tables `<<0,1,4>>` and `<<0,1,3,4>>`, capsules of 1 and 2 bytes, headers of 1 and 2 | `CodeInside`, `InStep`, `Synchronized`, `RoundTrip` on an intact text; `BitsAttributed`, `SectionsInOrder` of its labels |
| `CarrierDamage` | capsules of 1 byte, one table per text | `ReaderFollows`, `CutFailsClosed` for every cut and every single changed token |
| `SectionBC`, `CarrierMismatch` | as `Carrier`, `CarrierDamage` | the two disagreements of section 6 |
| `Candidates` | 7 tokens, one of them special, logits 0, 1 and 3 half steps, total 8, three configurations, two temperatures | `RankingExact`, `SharesFair`; `Answered` under fairness. A fetch grows up to twice, with ties at every cut |
| `LocalModel` | trees of 2 files in 2 versions, 3 addresses of which 2 share a model, self-test of 2 steps, 4 visible tokens | `FreshLogits`, `OneTokenFed`, `RightModel` over any number of jobs, failing anywhere, while files change; only one of the files shows in the self-test |
| `IdentityStore` | 2 savers, 2 identities, a listing, a decoding, power loss | `OutcomeTold`, `ListedExact`, `OpensLater` and the refinement `ImplementsDirectory` |
| `Qualification` | 2 cases, 3 trials, a budget of 4 steps, 2 self-test results, one change on the way | `OneBudget`, `BundleHonest`, `VerdictRight`; `GenerationEnds` under fairness |
| `WebPage` | 2 addresses, 2 submissions, 2 tokens | `ConfirmedSent`, `ReadyAtRest` |

**Bounds.** `Jobs` is finite: a fresh name per submission, so three jobs let the
history of two overflow and be trimmed with one job running and one queued; two jobs in a
history of two (`JobLife`) are one in the model and one behind it.
`MaxEvents` bounds a log: a callback or a cancel is only possible below it, the
work's own transitions always are. 6 leaves room for two tokens after the four events of
an encoding that precede them, what a cancelled job may not reach. Names are
interchangeable, and symmetry is used only where no liveness is
checked. `Changes` bounds how often the model's table changes from token to token
and `TokenGuard` is the code's own guard, small: a generation that passes it is
refused, as in the code. A 4-bit register with total 4 has every kind of iteration
and a pending count up to the length of the run, and its shares are as small as a
quarter allows, so rounding bites harder than with 32 bits and 2^15. Bytes of
two bits give headers of one and two bytes, and tokens that span the end of B.
Logits of 0, 1 and 3 half steps make both directions of rounding and quantised ties of
different logits; seven tokens let a first fetch be incomplete for each configuration.
Two addresses with one model and one with another are what `bind` tells apart, and four
visible tokens take a section past its first extension, from a cold cache, a kept one and
one of another prompt. Two savers race, for two identities or for one: the application always
saves a fresh key, so the second is what `save_identity` promises for itself. A temporary
directory is named after its saver, since `mkdtemp` never gives a name twice.
A budget of 4 is spent inside the payload and inside the finish; a payload without a
limit of its own is why the budget has to end it. Two submissions mix their previews and
their ends in every order, and a click may inspect the other address at any point.
Deadlock is not checked: a job system at rest, and a message that was received or
refused, have nothing left to do.

**Fairness.** `WF(Worker)`: the executor's thread runs and the codec's loops are
bounded, by the token guard and the length of the text, so a work function
returns. `WF(Locked)`: a caller that entered a method of the manager leaves it.
`WF(Serve(c))`: a stream's thread runs. Nobody is obliged to submit, cancel or
shut down, and the 15-second timeout is not assumed: `StreamEnds` must not need it.
`WF(Next)` in `Candidates`: a call runs in the worker and its loop goes on.
`WF(Generate)` in `Qualification`: the command runs to its end. The identity store, the
resident model and the page assume none.
`JobSettles` and `StreamEnds` except a closed pool, as `shutdown` cancels queued
futures without settling their jobs.

Every property of a passing run has a mutant: a changed definition, named before
the one it replaces, that a plausible slip in the code would be, and that breaks it.

## 4. Proofs

Assumptions: only the named ones of the modules. `JobAssumption` (finite set of
jobs, positive limits), `CoderAssumption` (a positive quarter, a total of at most
a quarter: 2^15 against 2^30), `HeaderAssumption`, `CarrierAssumption` (the tables
are ones `table_counts` accepts), `CandidatesAssumption`, `TemperaturesAssumption`
(`deterministic_weights` gives at least 1 at every distance), `AdapterAssumption` and
`LocalModelAssumption`, `StoreAssumption` and `NoDirectory` (names of different kinds
differ), `QualificationAssumption`, `PageAssumption`.

**JobManager_proofs.** `TypeCorrect` comes first. `OutcomeBacked`, `TerminalStable`
and `ModelSerialised` are not inductive: that a settled job stays settled depends on
nobody being on the way to settle it again. `Owned` says who owns a job: nobody until
its future exists, the worker while the future runs (and where in `_run` it is, with
which outcome decided), the lock's holder between the cancelled state and its event,
nobody afterwards. It is inductive (`AlwaysOwned`), and the three follow
(`OutcomesBacked`, `SettledForGood`, `MLXSerialised`). `UnsettledKept` adds that
`_trim_locked` takes the oldest settled jobs, and only from a full history (`OldestGo`).
`HistoryLimits` counts: between the count of `submit` and its insertion the worker can
only lower the number of unsettled jobs, so one more is still within the limit.
`NeverFull` needs a settled job to trim, which a count below a pending limit that is at
most the history's provides, and that an oldest one exists (`Oldest`, by
well-foundedness of strict subsets, in place of an induction). `ManagerImplements` is the
refinement of `JobService`: an insertion is its `Accept` because the count still holds
(`HistoryLimits`), the first state a work function writes its `Begin` because no other job
can be in a working state (`Owned`), the last one its `Settle`; `Begun` adds that a job
which still shows `queued` when the worker settles it was cancelled. `CancelEffective`
follows two kinds of jobs along the whole behaviour. A flagged one can have one event of a
callback to come, that of a check that had passed (`Bounded`, `Passed`); to count events,
`Announced` says that what the worker appends elsewhere is no callback's. One flagged
before its future ran never leaves the queue but to be cancelled.

**JobStream_proofs.** `ReaderInv` says what a reader knows at each place of its loop. A
log only grows, and a settled job's log only by the event of its outcome (`LogGrows`), so
what a batch was stays what it was, and what is missing behind it is the outcome at most,
if the job was settled when `Job.wait` looked. `StreamOwned` joins it to the manager's
`Owned`; `StreamsFaithful`, `EndsMissOnlyOutcome` and `ViewsTell` follow, the last one
because a settled job's state, result and error stay.

**Carrier_proofs**, in six parts.

1. *The coder*, for any register and table: an interval wider than a quarter gives every
   symbol a non-empty share (`NarrowInside`), every code in it selects a symbol and lies in
   that symbol's share (`SymbolFound`, the agreement of the rounding up in `scaled` with the
   rounding down of the ends), an iteration keeps the code inside (`WidenInside`), and when
   the loop stops the interval is wider than a quarter (`WideAfter`).
2. *The sender's registers.* `CodeNeverOutside` from `DecoderInv`, which adds where the
   interval is wide. `CodersInStep`: the decoder renormalises at once and the mirror
   afterwards, so `MirrorInv` says that a *trail* of n iterations leads from the mirror's
   interval to the decoder's and that the two are n bits apart. A decoder's iteration makes
   the trail longer, a mirror's shorter, and when the mirror's loop stops it is empty.
3. *The mirror's bits.* `MirrorConfirms`: the code register is a *window* on the source, the
   bits behind those confirmed, with the pending bits the complement of the one in front of
   them (`Window`). `SyncInv` carries the window along the trail (`CodeTrail`, `Following`):
   a lower or upper iteration confirms the source's own bit and all that were pending, a
   middle one leaves one more pending.
4. *The payload as a history.* `SentInv`: there is a sequence of encoder states, one per
   token, each reached from the one before by that token's symbol, and every one but the last
   had a packet bit to confirm (`Payload`, `Packed`). An encoder is a function of its table
   and symbol, so the receiver on the same text goes through that very sequence (`ReaderInv`,
   `Follows`), although it knows neither the packet nor its length.
5. *The receiver.* What it collected is a prefix of the source (`ReaderKeepsUp`). While the
   header is incomplete no length is parsed, and once it is whole the length is the capsule's
   (`HeaderRead`), so the target is reached with the
   last token of the history, neither before nor after it: `IntactRoundTrip` and
   `CutIsRefused`. `CarrierTypeCorrect` covers changed texts, too.
6. *The labels.* `LabelInv`: the bits of the header that were attributed are all that were,
   as long as none of the capsule's are. `BitsLabelled` (a token in C reaches into the capsule,
   but the first one may begin in the header), `SectionOrder` (each token's bits begin where
   those of the one before ended), and `NothingSpans`: the finding of `SectionBC` is no matter
   of the instance.

**Candidates_proofs.** `CompleteSort`: rounding keeps the order of the logits
(`QuantizedMonotone`), so what was not fetched scores no better than the fetched floor,
and what lies strictly above the floor is ranked as in the whole vocabulary
(`RankingOfPart`, from an order in which each place has one token). Holds for every
vocabulary and every choice of the accelerator, hence for two ends whose accelerators differ.
`FairShares`: with S the sum of the weights, a weight's share is S times its quota plus a
remainder below S (`Proportions`). What the quotas leave is between 0 and the number of
candidates (`Missing`), the remainders rank the candidates without a tie (`PlaceOrder`), so
exactly that many get one more (`Winners`) and the counts add up (`CountsSum`). A count is
off by S minus its remainder if it got one more and by minus its remainder if it did not
(`FarOff`), and who got one more has the larger remainder (`LuckyFirst`). `AnswerInv` says
that the table answered is made of accepted weights: the best candidate comes first, so no
distance is negative. Sums are reached by counting up (`CountUp`, from the well-foundedness
of strict subsets), since an induction theorem takes an operator.

**LocalModel_proofs.** `FreshLogits` needs `Warm`: inside a section, the adapter's cache
holds its last context, and that is the visible text without its newest token. A call
that failed leaves the job, so a cache it spoiled is met by the self-test of the next one,
whose first context has no visible text and therefore fills a new cache.
`Named` says what a self-test has shown so far: an answer that was as expected came from a
model with the address's tables, and which files it has does not matter. `Unswapped` follows
the files: unless the history tells of a replacement, a verified file is still the address's,
so the loaded model is, so the key names it. `AddressedModel` is the two together.

**IdentityStore_proofs.** `Placed` says where the directory of each saver is, in at most
one place; `Progress` which of its files are on the disk already. So a renamed directory
is whole (`Sound`), and `Atomic` maps `Rename` to the abstract publication, a power loss
to the loss of the newest, and every other step to a stutter. `Listing` and `Opening` carry what
a reader has seen to the end of its call. `Told`: whatever raised, it was not after the rename.

**Qualification_proofs.** `Tried` counts: the rejected trials of a case are all before
this one. `Made` says that a bundle is written with its own corpus, encodings and packets.
`Checking` ties what was changed to what can be found: the change is harmless exactly when every
case still fits (`Fits`), and those checked so far do. So a change elsewhere is met in its case
or in the head, and a bundle all of whose cases recovered was not changed but in a fit D.

**WebPage_proofs.** `BoxCurrent` (a tick is about the address on the card) gives
`ConfirmedSent`; `Queued` (a job that has not been accepted, or still waits, has no end)
gives `ReadyAtRest`.

**Model-checked only.** Liveness under fairness (`JobSettles`, `StreamEnds`, `Answered`,
`GenerationEnds`) is out of the prover's reach. Every invariant and every action property
of the passing runs, and both refinements, are theorems. The two runs of section 6 state
what does not hold.

## 5. What is left

1. The page composed with `JobStream` instead of a queue.
2. The rounding of `Quantized` and the shares of `FrequencyCounts` as lemmas of an
   abstract specification of the table, with `Candidates` as its implementation.

**Promised by nothing.** Some things the properties leave open, because the code does: a job
that settled may be trimmed before its client asks for its result, which then gets a 404
(`ViewTells` accepts it); while a second submission is under way the page may call a mixture of
two texts ready, until that one ends (`ReadyAtRest` is about the page at rest); and a
replaced file that leaves the tables of the self-test as they were is used unnoticed.

**Not modelled, and why.** The inner frame, addresses, canonical JSON and fingerprints are
pure sequential functions with unit tests; the model takes their results as given. The
wording of prompts, the rendering of pages and the line ending of a carrier are
layout, except that a stripped token is a cut. MLX and HPKE are external: the first is any
logits, the second opens nothing but the sender's header, capsule and prefix. The command
line calls the modelled services in order. Materialising the artifacts runs once and alone.
The page's reading form, creation of identities, estimates and diagnostics are left out: the
first writes a late secret to a page whose view may have been left (`app.js:298`), and no
document says what it should do. File descriptors have no numbers, so the second close
of `private_store.py:67` has no model. A prompted model's `context_token_limit` is never set
in the repository, so a context is always the whole visible text.

## 6. Where the code and the documents disagree

* **No token is ever labelled BC.** `web/app.py:395` compares `confirmed_from` with
  `header_bits`, which is always what the last header token confirmed, that is
  `confirmed_from` itself. `docs/protocol.md:128-129` describes tokens that span the
  boundary, and the page counts them (`web/static/app.js:8`). Run `SectionBC`.
* **A mismatch in the last token of C can be accepted.** The receiver stops at the token
  that completes the packet and drops the suffix bits that token also spells, so a
  different token with the same packet bits opens the same message. `docs/protocol.md:156`
  says that any mismatch inside A/B/C fails closed. Run `CarrierMismatch`.
