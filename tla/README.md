# Collective Scheduler: a verification project in TLA+

Modules that model the scheduler of this repository and the processes around it,
the instances TLC checks, and theorems that TLAPS proves about them. Paths below
are relative to the repository (`src/` in `PROJECT.json`). `PROJECT.json` lists,
for each definition, the source lines it stands for.

## The system

| Part | Source | Modelled in |
| --- | --- | --- |
| Lifecycle of a collective: guarded state machine | `include/.../lifecycle.hpp`, `enums.hpp` | `Lifecycle` |
| Footprints and conflict classification | `src/conflict.cpp`, `conflict.hpp` | `Conflict` |
| Scheduler: requests, evidence, decisions, grants, handoff, completion, fencing, recovery | `src/scheduler.cpp` | `Scheduler` |
| Evidence: participants, plans, dependencies, reservations, congestion, capacity | the headers of those names | `Scheduler` (variables and publications) |
| Collective fabric port (accept, revoke) | `ports.hpp` | `Scheduler` (`accept`, `revoke`, `fabric`) |
| Ranking, fairness, starvation prevention | `scheduler.cpp`, `fairness.hpp` | `FairScheduler` |
| Priority inversions, preemption port | `scheduler.cpp`, `ports.hpp` | `FairScheduler` |
| A client of the library | `examples/basic_schedule.cpp`, `cuda/schedule_gating_proof.cpp` | `FairScheduler` |
| Persistence: save, restore, conservative recovery | `src/persistence.cpp`, `scheduler.cpp`, `coordinator.cpp` | `Recovery` |
| Coordinator process: threads, sessions, broadcast | `src/coordinator.cpp` | `Sessions` |
| Coordinator process: message handlers; worker process | `src/coordinator.cpp`, `src/worker.cpp` | `Coordinator` |
| Framed protocol | `src/protocol.cpp` | `Framing` |
| Message encoding | `src/serialize.cpp`, `persistence.cpp` | `Codec`, `Messages` |
| Resource broker port | `ports.hpp` | no: only `release` is ever called |
| CUDA executor, inspector, benchmark | `cuda/`, `tools/`, `benchmarks/` | no: I/O |

Everything goes through one `Scheduler` object with one mutex. Clients publish
evidence, each item with a generation; they submit requests that name the
generations they rest on; `schedule()` derives readiness, picks a set of
requests that may run together and issues a grant for each; a client hands a
grant off; the scheduler revalidates it and offers it to the fabric; the worker
reports completion. Evidence may move on, workers may be fenced, requests may be
superseded or cancelled and the whole dynamic state may be reset at any point in
between. That is where the difficulties are: a grant is a value that outlives
what it was based on, and `handoff` leaves the mutex in the middle.

The coordinator is a process around one scheduler: a thread accepts connections,
a thread per connection reads frames and handles messages, and a query sends the
grants it issued to every session.

## Modules

| Module | Content |
| --- | --- |
| `Lifecycle` | transition table, the transition of a caller that catches the error, terminal states |
| `Conflict` | `make_footprint`, `classify_conflict`, `forbids_overlap`; sorted unique vectors are sets |
| `Scheduler` | the state machine of the scheduler |
| `GrantLifecycle` | abstract: what the holder of a grant is promised |
| `GrantContract` | the refinement mapping from `Scheduler` to `GrantLifecycle` |
| `FairScheduler` | `Scheduler` with the ranked decision in full, and a client that drives it; refines `Scheduler` |
| `Recovery` | `Scheduler` with a state file, crashes and restarts |
| `Sessions` | threads, connections and descriptors of the coordinator |
| `Coordinator` | composes `Scheduler` and `Sessions`: handlers, workers, controllers |
| `Codec`, `Messages` | reader and writer of primitives; the layout each function writes or reads |
| `Framing` | one connection: frames, chunks, two writers, the receive loop |
| `Claims` | statements of the documentation, comments and tests that the code does not keep |
| `MC...` | inputs of the small instances |
| `SchedulerProofs`, `AuthorityProofs`, `GrantSteps`, `GrantProofs`, `ActiveProofs`, `ContractProofs`, `RecoveryProofs`, `CoordinatorProofs` | theorems |

Names follow the source. A definition described as a *mutation* is a plausible
mistake in the definition after it; it is used to make sure that the property
concerned notices.

### State and actions of `Scheduler`

| Variables | Code |
| --- | --- |
| `lifecycle`, `request`, `request_gen`, `current_grant` | `records`, by request id; `ABSENT` is no record |
| `participants`, `plans`, `deps`, `reservation`, `congestion`, `capacity` | the evidence tables; `None` is no entry |
| `participant_requests` | reverse index from participants to requests |
| `issued` | grants as values clients hold; never forgotten by them |
| `grants`, `active`, `terminal` | the grant table and the flags of its entries |
| `active_by_participant`, `active_grants` | index and counter of active grants |
| `epoch`, `now`, `policy`, `next_request_id`, `next_grant_id` | the fields of those names |
| `dispatch`, `revoking` | handoffs and revocations in progress outside the mutex |
| `fabric` | grants the fabric is executing |
| `recoveries` | how many recoveries have happened; a bound only |

Each public method that holds the mutex throughout is one action with its name.
`handoff` is three: `handoff(g)` (first section), `accept(g)` (the fabric's
answer, either way, without the mutex), `handoff_commit(g)` (second section).
`revoke(g)` is the call to the fabric that `handoff` and `cancel` make after
releasing the mutex. A call that throws, or returns early, without assigning
anything has no step. `submit` of a malformed request does assign: the id is
consumed.

`schedule` is one action: readiness of every record, the lifecycle derived from
it, candidates, selection, grants. The selection loop is given by the set it
produces: `S` is the selection under `rank` exactly when each candidate is in `S`
iff the loop's conditions hold for it against those of `S` ranked before it
(`is_selection`). The loop's `break`s are conditions that stay true. The ranking
is any bijection, so what is shown here holds for every weighting.

What is abstracted: a participant's worker, worker boot and source boot are one
incarnation; `ready` with a known readiness source is one Boolean; the ceiling of
congestion evidence is one Boolean; the resource claims' units are one sum; a
grant carries the request it was made from (`body`) in place of copies of its
fields; checks on one field of a request are its field `well_formed`. Integer
times wrap at `TimeModulus` (2^64 in the code). Counters, explanations, history
and the resource broker's `release` are left out.

### `GrantLifecycle` and `GrantContract`

The abstract specification knows nothing of records, evidence or epochs. A grant
has a key (the generation of a request it is for), a status (unissued, live,
ended) and the progress of its handoff. Keys are unique, a handoff begins at most
once and on a live grant, and ended is for good. In the scheduler a grant is live
while the table has not ended it and it is the current grant of a record that is
granted, dispatching or active: none of these is stored with the grant, which is
why it takes an argument that `handoff` of an old value is always refused.

### `FairScheduler`

`decide` is the critical section of `schedule()`: `ranking_key` with the default
weights, the comparator with its tie-breaks, the selection loop turn by turn
(`select_step`), the grants, the age, bypass and deficit of every record, and the
priority inversions. `request_preemption` is what the public method does after
the unlock. Scores are exact multiples of 1/2000 where the code has doubles.

The client is one thread, as in the example and in the gating proof: it publishes,
submits, decides, hands off all grants of a decision before it decides again.
Workers complete and an operator cancels from other threads at any time.

### `Recovery`

| Variables | Code |
| --- | --- |
| `file` | the state file: none, torn, or a snapshot |
| `saving`, `snapshot` | a session thread inside the SAVE handler, and the bytes it holds |
| `held` | grants of earlier processes that clients still have |
| `restored` | what this process read from the file |

SAVE is three steps: the snapshot under the scheduler's mutex, `fopen` that
empties the file, `fwrite`. Two savers may have the file open at once. `restart`
is a crash at any point followed by `Coordinator::run`: restore, or start empty
when the file does not read, recovery, the epoch of the command line. *Operator
assumption*: each start is given a larger `--epoch` than the one before.

### `Sessions` and `Coordinator`

| Variables | Code |
| --- | --- |
| `main`, `accepted`, `running` | `run()`: accepting, listing, back at the loop's condition, joining; the flag |
| `thread`, `fd`, `batch`, `cast`, `targets`, `answer` | where each `session()` is, its descriptor, what it has still to handle and to send |
| `sessions`, `mu` | the list of descriptors and the holder of `sessions_mu` |
| `peer`, `inbox`, `outbox` | the other end and the socket buffers |
| `todo`, `seen`, `stale_rejections` | what a peer has still to send and has received; the counter |

`Sessions` knows nothing of messages; `Coordinator` gives each message its handler:
one step with an action of `Scheduler`, and `Sessions`' steps for what is sent. A
send blocks while the buffer is full. Erasing a session and closing its descriptor
are separate steps, and a closed descriptor may be given out again. When there is none
left, `accept` fails and `run()` leaves its loop for good, while the sessions it has go
on (`accept_failure`). A send to a peer
that has gone fails; on POSIX that presumes that SIGPIPE is ignored, which the
coordinator does not arrange. A controller's script is fixed; a worker greets,
registers and publishes, then answers each
grant for a participant it owns with EXECUTION_ACCEPTED and COMPLETE. The SHUTDOWN it
sends last goes out after its stream has ended, when nobody is left to read it, and is
left out. Handlers that
only forward to another publication of `Scheduler` are not repeated here.

### `Codec`, `Messages`, `Framing`

A primitive is a cell with its width; a cell is read back only with the width it was
written with. Each `serialize_*` and each `deserialize_*` is a layout, transcribed
from its own function, so that a disagreement between the two would be one between
two definitions. `Framing` sends scripts of such messages: `send_all` puts a frame on
the wire in pieces, two writers (a broadcast and a reply) may interleave theirs,
`recv` takes any prefix, `decode_frames` and the handlers follow in the same step, as
in the loop of `session`. A reader that throws costs the coordinator the message, and
the worker, which reads GRANT outside any `try`, its life (`is_fatal`). The hash is taken to have no collisions.

## What is checked

| Run | Instance | What it shows |
| --- | --- | --- |
| `race` | 2 requests out of 6 kinds over p1, p2 (shared participant, link, reservation; exclusive); 2 grants; p1 may move to a new generation; a boot that may be fenced; a policy change | calls that overtake a handoff: `ParticipantAuthority`, `LiveGrant`, `ActiveIndexExact`; what a decision grants can run together, respects the bounds (`DecisionConsistent`) and stays clear of running work (`NewGrantsAvoidRunning`); what the fabric accepted is given up only by what ends an active grant (`DroppedOnlyWhenActive`) |
| `reissue` | 1 request, 3 generations, 3 grants, a fence, a recovery | grants of earlier generations: `OneGrantPerGeneration`, `HandoffOnceAndLive`, `ActiveIsCurrent`, `IndexComplete`, `ActiveIndexExact`, `TypeOK`; late and repeated cancellations and completions, around the fence and the recovery: `TerminalIsFinal`; what the fabric is left with: `DroppedOnlyWhenActive`; the refinement `ImplementsGrantLifecycle` |
| `evidence` | 1 request resting on all evidence, with a window; every kind of evidence, the epoch and time move on | `NoStaleHandoff`: the list of checks in `revalidate_grant` misses nothing that readiness calls stale, or short of a participant or plan. It does miss an unsatisfied dependency: see below |
| `fair` | 3 requests out of 4 kinds over p1, p2; promotion after 2 bypasses | the refinement `ImplementsScheduler`; `PromotedGoFirst`; `InversionsReported`; `ClientsNeverCollide`; `EverythingEnds` (liveness) |
| `recovery` | 1 request, 2 grants a process, 2 savers, 2 restarts | `OldGrantsDie`, `RestoredWorkIsNotRepeated` |
| `coordinator` | a worker that may be killed, 2 controllers, 2 descriptors, sockets of one frame | `BroadcastTargetsOpen`, `BroadcastsAgree`, `NoCircularWait`, `ShutdownEnds` |
| `wire` | every message type with empty and filled vectors; sequences; two writers; another version; an unknown type | `HandledInOrder`, `FieldsSurvive`, `EverythingHandled` and `UnacceptableCloses` (liveness) |

Runs that refute a statement of the repository (each has a finding in
`PROJECT.json` with the quotation):

| Run | Statement refuted | Why |
| --- | --- | --- |
| `both_active` | conflicting collectives do not run concurrently | `active_conflicts` ignores grants that are not active yet; two decisions before a handoff suffice |
| `stale_active` | a stale grant does not become ACTIVE | the second section of `handoff` looks at the record's lifecycle only: the late return of a superseded grant, with its successor DISPATCHING, makes the record ACTIVE itself and then finds it so |
| `count_leaks` | active collectives are accounted for | `fenceWorkerBoot` clears the active flag and not the counter (and `supersede` counts down for a grant that was not active) |
| `never_regranted` | recovered work becomes executable on fresh evidence | `schedule` has no way out of `REVALIDATION_REQUIRED` |
| `no_completion` | workers of the reference deployment complete what they are granted | no handler of the coordinator calls `handoff`, so `complete` finds the record GRANTED and refuses |

`ClientsNeverCollide` is the statement of `both_active`, and holds for the client of
`fair`: handing off everything before the next decision is what it takes.

`DroppedOnlyWhenActive` is about the two critical sections of `handoff` and what comes
between them: a cancel, a new participant generation, a fence, a supersession or a
recovery may overtake the fabric's answer, and still nothing is lost in the course of a
handoff. It is as far as the code goes. Fences, supersessions and recoveries end grants
without a call to the fabric, so work that is active when its record is withdrawn or
moves on to another generation keeps running there.

### Further disagreements, without a run of their own

`Claims` states three more, which are refuted in a changed configuration:

| Statement | Quotation | To reproduce |
| --- | --- | --- |
| `SupersededWorkIsRevoked`: `supersede` revokes the grant in flight | "Revoke any in-flight grant (external, after unlock)." (`src/scheduler.cpp:793`) | `stale_active.cfg` with this invariant: `supersede` never calls the fabric |
| `HandoffDependenciesSatisfied`: an invalidated dependency makes the grant reject | "Dependency invalidates / advances before execution -> old grant rejects." (`tests/test_semantics.cpp:244`) | `evidence.cfg` with this property: `revalidate_grant` compares generations only, and a dependency may be published unsatisfied under the same one |
| `GroupWithinResidual`: overlap only where evidence permits | "Overlap is allowed only when constraints and resource evidence permit it." (`README.md:52`) | `race.cfg` with three participants, plans, requests and grants, the `Trio...` inputs of `MCScheduler`, no reservations, fences or policy changes, and this property: bandwidth is added up in pairs |

### Bounds

The instances are the smallest in which the interesting cases happen. Two
requests and two grants give every race between two calls. A stale grant next to
a current one, with a third to come, takes three generations of one request; more
requests add nothing, because grants of different requests meet only through
participants, which `race` covers. Two participants make a request
that shares one and has one to itself. `TimeModulus = 4` lets time pass before,
through and after the window and wrap. `never_regranted` has two grant ids, so that the
first grant leaves one for the work to be granted again.

- `fair`: three requests make one that is passed over twice, in favour of different
  ones, and then promoted. Every request can be granted (`MaxGrantId = 3`), so that
  no bound stands in the way of `EverythingEnds`. Time stands still; priorities stay
  below the weight of a promotion (150000 against at most 1000): larger ones beat it.
- `recovery`: two restarts make a process that reads a file written by a process
  that itself was restored; two savers make every overlap of two writes. They are
  symmetric, and `SYMMETRY` is used (there is no liveness property in the run).
- `coordinator`: three connections on two descriptors force reuse, or a failing `accept`. One frame of room
  in each socket makes every send block that can. Two queries, one after the other or
  at once, make two broadcasts.
- `wire`: runs of up to `LongRun` cells are cut anywhere, longer ones within and after
  the header, before the last cell, or not at all. `send` takes a frame in at most two
  pieces. Vectors have none or two elements.

Every bound is a constant with `Max` in its name, or one of `Capacity`, `LongRun`,
`Fds`, `Scripts`. Deadlock is checked in the runs of `Scheduler` and in `recovery`:
evidence may always be published again. The clients of `fair`, `coordinator` and
`wire` do come to an end, so there it is not; `NoCircularWait` says what deadlock
freedom should say in `coordinator`.

### Fairness

`Spec` of `Scheduler` has none, and its properties are safety properties.

- `never_regranted`: somebody goes on calling `schedule` (weak fairness), since without a
  decision nothing could be granted; nothing else need happen.
- `fair`: the client's thread goes on (weak fairness of its steps: it is one thread in
  a loop that ends only when nothing is left to do), a fabric that was called answers
  and the call commits, and a worker that executes reports completion. Submission and
  cancellation have no fairness.
- `wire`: writers go on sending, and what the kernel accepted is delivered.
- `coordinator`, `no_completion`: each thread of the coordinator goes on when it can;
  a connected peer sends what it has to and reads what it was sent. Nothing makes
  a peer connect, exit or die. `NoCircularWait` and `ShutdownEnds` are stated as
  invariants of the states in which none of those steps is enabled. Scripts are
  finite and each step uses something up, so every behaviour reaches such a state;
  TLC checks this much faster than the temporal form.

## What is proved

For any participants, plans, requests, evidence and bounds that satisfy the
assumptions of `Scheduler` (bounds are naturals; inputs name known entities and
have natural generations; dependencies are numbered and the sizes in a policy are
naturals; `None` is none of the values):

| Module | Theorems | Inductive invariant |
| --- | --- | --- |
| `SchedulerProofs` | `TypeCorrect` | `TypeOK` itself |
| `AuthorityProofs` | `AuthorityHolds`, `IndexHolds`, `DecisionsAreConsistent` | `AuthorityInv` |
| `GrantSteps` | lemmas: every step but a decision | `GrantInv` |
| `GrantProofs` | `GrantsAreUnique`, `GrantsAreLive`, `HandoffsAreUnique` | `GrantInv` |
| `ActiveProofs` | `IndexIsExact`, `RunningIsCurrent`, `DecisionsAvoidRunning`, `HandoffsAreNotStale` | `ActiveInv` |
| `ContractProofs` | `ContractHolds` | `GrantInv` |
| | `WorkIsFollowed` | `FollowInv` |
| `RecoveryProofs` | `OutcomesAreFinal` | `GrantInv` |
| | `RestoredWorkIsOver`, `GrantsAreUniqueAfterRestart` | `RecoveryInv` |
| | `OldGrantsAreDead` (if `EpochOfProcess`) | `EpochInv` |
| `CoordinatorProofs` | `TargetsAreOpen` | `SessionInv` |
| | `BroadcastsAreOrdered` | `CastInv` |

- **Types.** Beyond types, `TypeOK` says that `active_grants` never wraps below zero,
  that no flag is kept for a grant that has left the table and that each record has a
  request. The delicate action is `schedule`: the numbers it gives to new grants stay
  within those available because the candidates are finite (`CandidatesFinite`) and
  those ranked before a selected one are a proper subset of the selection
  (`RankedBefore`).
- **Authority.** Work that is ready, granted, dispatching or active rests on the
  current generation of each of its participants. Neither this nor the completeness
  of the index is inductive alone: `publishParticipant` withdraws only what the
  reverse index leads it to; and the index is complete only for the work that could
  still matter, since a recovery clears it. That is sound because the same recovery
  withdraws all unfinished work, and nothing but `supersede`, which indexes its
  request again, brings withdrawn work back (`WithdrawableMoves`,
  `OnlyGrantedDispatches`).
- **Decisions.** That the grants of a decision can run together is an argument about
  `is_selection` alone: of any two, the one ranked later was compared with the other.
  That they are not more than the policy allows is seen from the one ranked last
  (`LastRanked`): the loop let it in while all the others were counted.
- **Grants.** `GrantInv` adds to the properties that ids below the counter are used,
  that a record's current grant is its own, that a record with a live lifecycle has it
  in the table and not ended, that an issued grant names a record and a generation not
  beyond it, that a record which may still be granted has no grant of its generation,
  and that what has been handed off is no longer GRANTED. Every step but a decision
  satisfies `Keeps` (`GrantSteps`): records go on in their generation towards an end, or start over
  in a new one. A decision has the effect `Grants(S, id)`. The invariant, the action
  properties and the refinement of `GrantLifecycle` follow from these two, so no
  action is looked into more than once. `ContractHolds` is the refinement itself:
  initial states map to initial states, and every step maps to a step or a stutter.
- **Active work.** `ActiveInv` adds that a grant in the table and not ended is its
  record's current one, that its body is the record's request, and that an active
  grant's handoff has returned. From it, `active_conflicts`, which walks the index and
  reads the record's footprint, sees everything that runs. The theorem stops there:
  granted work that is not active yet is what `both_active` is about.
- **Handoffs.** `HandoffsAreNotStale` compares two lists of checks that the code keeps
  apart, `revalidate_grant` on the grant and `readiness` on the request: whatever the
  second would hold against the work, the first refuses. It needs that the grant's body
  is the record's request.
- **The fabric.** `WorkIsFollowed` is `DroppedOnlyWhenActive`, without a condition on
  what is fenced, superseded or recovered. An accepted grant stays `accepted` until the
  call commits, which makes it active or revokes it; `cancel` revokes what it ends. The
  steps that revoke nothing end an active grant, and it remains to see in what state they
  leave its record. `FollowInv` adds to `ActiveInv` that an active grant of its record's
  present generation is not ended and that the record is active or already withdrawn
  (`RunsOrWithdrawn`); a handoff that returns late can make the grant of an earlier
  generation active, hence the condition on the generation.
- **Restarts.** `RecoveryInv` says that every file and every snapshot in flight is torn
  or holds the counters and records of some state of the scheduler, and that what a
  process restored is `settled`: over, or neither fresh nor granted, with no grant of
  that generation issued by this process. A restart establishes `GrantInv` again, so
  everything proved from it holds in every process. `EpochInv` says that no file, no
  snapshot and no client is ahead of the process's epoch, and that grants held from
  earlier ones are behind it. That presumes that only `run()` moves the epoch
  (`EpochOfProcess`), as in the coordinator, where nothing else calls
  `advanceCoordinatorEpoch`: were it advanced beyond the number of the next start, an
  old grant would pass (`recovery.cfg` with `MaxEpoch = 2` shows it).
- **Sessions.** For any number of connections and descriptors. `SessionInv` adds the
  types of the threads' states, that a thread holds the mutex while it sends, and that
  the main thread lists exactly what it has just accepted. Coordinator steps that only
  touch the scheduler or the peers leave all of it alone.
- **Broadcasts.** That peers agree on the order of what they have received is not
  inductive: it depends on what is still to be sent. `CastInv` says that frames waiting
  in a thread are of grants issued, in the order of their ids, that no two threads wait
  with the same grant, that none has reached anybody except the first of the thread with
  the mutex, and that those who have that one have nothing after it. Every condition
  speaks of what is *not* before something else, so that losing frames (a peer that
  exits) cannot break it; only a decision and a send need an argument
  (`QueryCast`, `SendCast`), and `QuietCast` covers all other steps.

Only model-checked: liveness (`EverythingEnds`, `EverythingHandled`,
`UnacceptableCloses`, `GrantedWorkCompletes`) and properties stated with ENABLED
(`NoCircularWait`, `ShutdownEnds`), which are beyond the prover; and what rests on the
folds of `FairScheduler` (`ImplementsScheduler`, `PromotedGoFirst`,
`InversionsReported`, `ClientsNeverCollide`) and on the recursive functions of `Codec`
and `Framing` (`HandledInOrder`, `FieldsSurvive`), which needs induction over data.

## Not modelled, and why

- `info`, `grantById`, `revalidateGrant`: they read and change nothing. `grantById`
  returns the grant as issued; its own `terminal` flag is never set.
- Field layout of the state file, `serialize_fairness`: the file is whole or torn.
  Fairness accounts do not meet persistence in any module.
- The resource broker: `can_claim` and `claim` are never called.
- Overlap groups, explanations, schedule history, counters: written for the reader of
  a decision, read back by nothing.
- Floating point: scores are exact in `FairScheduler`. Ties that rounding makes or
  breaks are outside the model.
- Congestion and availability in the ranking: the same for all candidates.
- Message types without a handler: dropped, as `handle_other` drops one.
- CUDA execution, inspector, benchmark, command lines, socket set-up: I/O.
- Data races inside the reference fabric's `accepted` list: a test double.

## Running

    tlc -config race.cfg MCScheduler
    tlc -config fair.cfg MCFair
    tlc -config recovery.cfg MCRecovery
    tlc -config coordinator.cfg MCCoordinator
    tlc -config wire.cfg MCWire
    tlapm GrantProofs.tla

`reissue`, `evidence`, `both_active`, `stale_active`, `count_leaks` and `never_regranted`
also run with `MCScheduler`, `no_completion` with `MCCoordinator`. A run takes at most three
minutes; a module of proofs at most about ten.
