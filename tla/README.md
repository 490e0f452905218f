# Mystagram: a TLA+ verification project

Mystagram is an iOS program (Swift, RxSwift, Firebase): a user registers with
an e-mail address, a password, two names and a profile image, or logs in, and
sees a feed. Its repository contains the libraries it is built on; of those,
the client of Cloud Firestore carries out every write the program makes, and is
the one with the hard problems. This directory holds TLA+ models of the program
and of Firestore's write path, TLC configurations that check them on small
instances, and theorems that TLAPS has checked for every value of the
constants. Paths below are relative to
`src/Mystagram/Mystagram/` unless they start with `Pods/`, and those with
`core/` to `src/Mystagram/Pods/FirebaseFirestore/Firestore/core/src/`.

## 1. Inventory

| Component | State | Operations | Talks to |
|---|---|---|---|
| `Service/AuthManager.swift` | a singleton with one `disposeBag` that is never emptied; the calls in flight | `performLogin`, `doLogout`, `performRegistration` (createUser → putData → downloadURL → setData) | Firebase; observers in the view models |
| Firebase Auth | accounts (server); `currentUser` (memory and keychain) | signIn, createUser, signOut, restore at launch | its work queue, then the main queue |
| Cloud Storage | images under `profile_images/<uuid>` | putData, downloadURL | main queue |
| Firestore: `core/core/sync_engine.cc`, `core/local/leveldb_mutation_queue.cc` | a queue of mutation batches per user, on disk; callbacks by user and batch id; waiters | setData, acknowledgement, rejection, user change, `waitForPendingWrites`, restart | RemoteStore; the completion in AuthManager, if the process is still the same |
| Firestore: `core/remote/remote_store.cc`, write path | the pipeline of at most ten batches; whether the network is in use | fill the pipeline, start and stop the stream, match results, restart after a user or network change | SyncEngine, WriteStream |
| Firestore: `core/remote/stream.cc`, `write_stream.cc` | state, handshake, close count, backoff and idle timers | start, authenticate, open, write, read, close, back off | credentials provider, GrpcStream, RemoteStore |
| Firestore: `core/remote/exponential_backoff.cc` | base delay, time of the last attempt | back off and run, reset, reset to the maximum | Stream, the clock |
| Firestore: `core/remote/grpc_stream.cc`, `grpc_completion.cc` | outstanding completions, buffered writes, whether the call is finished | start, read, write, finish, write and finish; completions | gRPC's queue on a thread of its own, the worker queue, the server |
| Firestore: `core/util/async_queue.cc`, `executor_libdispatch.mm`, `task.cc` | the mode of the queue; tasks, schedule; each task's state and reference count | enqueue, enqueue after a delay, cancel, dispose, execute | libdispatch; every other part of Firestore runs on it |
| Firestore: `core/auth/firebase_credentials_provider_apple.mm` and the listener in `core/core/firestore_client.cc` | current user, token counter | observe Auth, get a token, tell SyncEngine of a change | main queue, worker queue |
| Login page and `LoginViewModel` | two subjects, the latest call of `flatMapLatest` | edit, login, go to sign-up | AuthManager, HUD, navigation |
| Registration page and `RegistrationViewModel` | five relays, the latest call, the transform of the page | edit, pick an image, sign up, go back, keyboard shown or hidden | AuthManager, HUD, navigation |
| `UIViewController.hud` (JGProgressHUD) | target view (weak), running fade, postponed dismissal | show, dismiss, end of a fade | whichever page called last |
| `SceneDelegate`, `loginCheck` | the window's root | choose Main or Login at launch | Firebase Auth |
| `MainTabBarController` | the selected tab | select a tab | the feed and four empty pages |
| Feed page, `FeedViewModel`, `FeedCell` | feeds, cells and their subscriptions | lay out a cell, reuse it, tap a user name, log out | AuthManager, navigation |
| `isValidEmailAddress` | none | a regular expression, on every keystroke | both forms |
| Search, ImageSelect, Notification and Profile scenes, entities, custom views, `AppDelegate` | none that changes | appearance only | |

What is hard in this code:

- A registration is four requests in a row. Any of them can fail, the answer of
  any can be lost, the process can end between two of them, and nothing cancels
  a call whose page is gone or whose result `flatMapLatest` will drop.
- `saveInfoToFirestore` reads `currentUser` again (line 111) long after
  `createUser` set it.
- A Firestore write has no time-out, survives a restart and belongs to the user
  who was signed in when it was made.
- All pages share one HUD, whose show and dismiss are asynchronous; during a
  fade it does not block touches, so a button can be tapped twice.
- Firestore's results carry no id: they are matched with the front of a pipeline
  that closes, rejections, user changes and restarts all rebuild. Batch ids are
  used again after a user change or a restart.
- A broken connection loses answers, so writes are sent twice; timers, token
  requests and closes overlap; all of it must never leave a queue without a
  stream, or a stream with the wrong user's token.
- Firestore's worker queue blocks while a gRPC call is finished, and destroys
  objects that gRPC, libdispatch and other threads were given pointers to.
- Cells are reused, keyboards replace each other without being hidden, forms
  are edited in any order.

What makes each part correct: the three stores agree and an observer hears one
truthful outcome (AuthManager); the HUD is up only while the page waits, and
comes down (HUD, pages); only the latest attempt is heard (view models); Main is
for signed-in users (navigation); one tap is one event (cells); the button is
enabled exactly for a complete form (forms, address); the keyboard does not cover
the form (registration page). In Firestore: writes are not lost, misattributed
or overwritten by older ones, and are all sent in the end (write path); a stream
carries its own user's token (credentials); retries follow the curve (backoff);
nothing is used after it is freed, and nothing waits for ever (gRPC stream,
executor).

The hazards, each at its line, are listed in `PROJECT.json`.

## 2. Modules

| Module | Models | Composes |
|---|---|---|
| `AuthManager` | `AuthManager.swift` and what it sees of Firebase | refines `WriteQueue` |
| `AuthManagerProofs` | theorems about it | extends `AuthManager` |
| `MCAuthManager` | bounds for TLC | extends `AuthManager` |
| `ProgressHUD` | JGProgressHUD as the program uses it | |
| `Mystagram` | pages, view models, navigation, launch and end of the process | instances of `AuthManager` and `ProgressHUD`; refines `AuthManager` |
| `MystagramProofs` | theorems about the program, and the refinement | extends `Mystagram`; an instance of `AuthManagerProofs` |
| `MCMystagram` | bounds for TLC | extends `Mystagram` |
| `EmailAddress` | `isValidEmailAddress` and what it is meant to say | |
| `Form` | both forms, from fields to button, and the image picker | extends `EmailAddress` |
| `MCForm` | the addresses TLC explores | extends `Form` |
| `Keyboard` | keyboard avoidance | |
| `MCKeyboard` | the phones TLC explores | extends `Keyboard` |
| `FeedCells` | reuse and binding of `FeedCell` | |
| `PageProofs` | theorems about the address, the forms, the keyboard and the cells | extends `Form`, `Keyboard` and `FeedCells` |
| `WriteQueue` | what Firestore promises about `setData` | |
| `WritePipeline` | how Firestore's client keeps that promise | refines `WriteQueue` |
| `WritePipelineProofs` | theorems about it, and the refinement | extends `WritePipeline` |
| `WritePipelineCalm` | the same once disturbances end | extends `WritePipeline` |
| `ExponentialBackoff` | when a stream tries again | |
| `ExponentialBackoffProofs` | theorems about it | extends `ExponentialBackoff` |
| `GrpcStream` | one gRPC call and its three threads | |
| `GrpcStreamProofs` | theorems about it | extends `GrpcStream` |
| `Executor` | AsyncQueue, executor and tasks | |
| `ExecutorProofs` | theorems about it | extends `Executor` |
| `Credentials` | users and tokens on their way through four queues | |
| `CredentialsProofs` | theorems about it | extends `Credentials` |

The two halves meet in `WriteQueue`: `AuthManager` uses no more of Firestore
than `WriteQueue` promises (`ReliesOnPromise`, proved), `WritePipeline` keeps the
promise (`KeepsPromise`, proved), and `Mystagram` implements `AuthManager`
(`ImplementsAuthManager`, proved). So the whole program uses Firestore as
`WriteQueue` promises it (`ProgramReliesOnPromise`).

Operators whose comment begins with "Mutant" are not part of the model. Each is
a plausible mistake in the operator that follows it, and shows that the property
it is listed with in `PROJECT.json` can fail.

### AuthManager

One record of `calls` per subscription to `performLogin` or
`performRegistration`; its `pc` is the answer it waits for:

    idle → request → granted → session → done                          (login)
                   → granted → session → putData → downloadURL → setData → done
                   → refused → done

`granted` is the server's decision; `session` follows when Firebase Auth's work
queue has set `currentUser` (`FIRAuth.m`, `updateCurrentUser`), which is earlier
than the completion handler on the main queue. So another call, or a logout, may
replace `currentUser` between any two steps. `result` is what the observer was
told; `Emit` is the stopped flag of `Observable.create`, on which `performLogin`
depends because it calls `onNext(true)` after `onError`.

An account and its uid are both named by the address, an image by the call that
uploads it (`UUID()` is fresh). A document keeps the image URL, the address and
the uid; the call stands for its other values. `Terminate` loses all callbacks
and lets requests that have left take effect or not. `currentUser` and the write
queues survive, as the keychain and Firestore's disk cache do. `overlapped` is a
history variable: the registrations whose session was replaced while they relied
on it.

The e-mail addresses, not the passwords, distinguish users; a wrong password is
one of the reasons for `AuthRefused`. `signOut` that throws changes nothing and
is not a step. A failed login still reaches its observer as an error.

### ProgressHUD

The operations are functions of the HUD's state (`Show`, `Dismiss`, `Release`,
the two clean-ups), because one main-thread step may call several of them.
`_transitioning` is true exactly while a fade runs, so `fade` stands for both.
`Release` is the weak `targetView` of a page that is deallocated.

### Mystagram

User-interface code runs on the main thread: a tap, or a callback with all that
its observers do, is one step. An action of `Mystagram` is therefore an action
of `AuthManager` in conjunction with what the pages do in the same step:
`LoginAnswered` is `LoginCallback`, then `asSignal`, then the HUD and
`switchToSomeVC`. `loginLatest` and `regLatest` are the inner subscriptions of
`flatMapLatest`. They become `None` when the page is released, and a call that
is not the latest is answered in silence.

`FeedCount` is `viewModel.feeds.count`. In the source `feeds` is an empty
constant, so 0 is the program as it stands: with it Main traps when its first
cell is laid out (`cellForItemAt`), and nothing after that happens. Run `app` uses
4, where some cells trap and some do not, so that the program's behaviour behind
Main (logout, a second login) is checked too. What can happen with 0 up to the
trap can also happen with 4.

### Form, EmailAddress, Keyboard, FeedCells

`Form` represents a text by its length and an address by the kinds of its
characters. `EmailAddress` represents a character by the class that
the expression can see: letters, digits and hyphen, dot, the marks `_ % +`, `@`,
and all others. `Keyboard` works in points: the room below the stack follows from
the page's size and the constraints of the two configure methods (the width of the
photo button rounded down to a point). It leaves `safeAreaInsets.bottom` of a page
that has been moved open (UIKit reports the inset or 0), and assumes that the top
inset, which comes from the navigation controller, does not depend on where the
page is, and that the phone is not turned while the keyboard is up. `FeedCells`
leaves to the collection view when a cell is prefetched, displayed and taken
back.

### WriteQueue, WritePipeline, WritePipelineCalm

`WritePipeline` follows one `setData` from SyncEngine to the server and back.
Everything the client does there runs in tasks of one AsyncQueue, so one task is
one action, and the methods that a task calls are operators from the client's
state to the client's state that nest as the calls do:
`OnWriteStreamMutationResult` is `PopFront`, `HandleSuccessfulWrite` (which is
`NotifyUser`, `TriggerPendingWriteCallbacks`, `RemoveMutationBatch`) and
`FillWritePipeline`. A `HARD_ASSERT` is `HardAssert`, which sets `aborted`. The
state record has SyncEngine's user, callbacks and waiters (`callbacks`, `told`,
`pending`, `waiterTold`), the mutation queues on disk, RemoteStore's pipeline and
network flag, the stream's state, timers and token requests, and the call: what
has been sent (`up`), answered (`down`) and how it ended (`status`). `server` is
what Firestore has committed, refused and stored per user; `history` is who made
which write.

The process can end between any two tasks (`Restart`): the queues stay, callbacks
and pipeline go, `LoadNextBatchIdFromDb` starts again from what is on disk. The
connection can break with answers unread. The server may refuse a write for good,
abort it, or end the call before the handshake.

Assumed of the server: it does not end a call with OK while writes are pending
(`OnWriteStreamClose` asserts that), and does not commit requests of a call that
the client has given up, which its stream tokens are for. Left out: contents of
documents, caches, listeners, transactions, the length of delays.

`WritePipelineCalm` adds a variable `calm`, after which no disturbance happens.

### ExponentialBackoff

The stream's state with its delays in milliseconds. Ages since the last attempt
stand for the clock and stop at `LongestDelay`, beyond which nothing depends on
them. The jitter is any that `GetDelayWithJitter` can draw.

### GrpcStream

The worker queue's stream, the thread that polls gRPC's completion queue, and
gRPC with the server. A method that waits (`FastFinishCompletionsBlocking`,
`WriteAndFinish`) is two or three actions; between them the worker queue is
`blocked` and only the other two threads move. `misused` records a failed
assertion or a second operation of a type that gRPC allows once at a time.

### Executor

Callers enqueue from their threads, the worker runs tasks, a disposer disposes of
the queue; an operation may schedule, cancel or dispose as well. A block under
`ExecutorLibdispatch::mutex_` is one step; `AsyncQueue::mutex_` and `Task::mutex_`
are held over several. `client` tells a queue of a `FirestoreClient`, which is
disposed of through `FirestoreClient::Dispose` alone, from any other.
`usedAfterFree` records an access to a deleted task or executor.

### Credentials

Auth changes its user and posts a notification to the main queue; the provider
passes it on to the worker queue; `RequestCredentials` asks for a token over
Auth's queue, the main queue and the worker queue. Everything on these queues is
a message in `main`, `worker` or `fetching`. The provider is constructed on the
main thread, as Mystagram does, so reading the user and observing the
notification are one step.

## 3. Runs

| Run | Bounds | Distinct states | Shows |
|---|---|---|---|
| `auth` | 2 addresses, 3 calls | 108,000 | stores consistent, sessions safe, results truthful and final, no more asked of Firestore than it promises, calls end |
| `app` | 2 addresses, 3 calls, 4 feeds | 551,000 | the HUD means waiting and goes away, only the latest call is heard, Main is opened unsigned only by a failed login, the program implements `AuthManager!Spec` |
| `app_main` | 2 addresses, 3 calls, 0 feeds | | violated: the finding below |
| `form` | 8 addresses, lengths 0, 3, 4, 6, 7 | 234,000 | the button and what it sends |
| `keyboard` | 7 keyboards, 7 phones | | the form is not covered, the page does not creep |
| `feed_cells` | 3 cells, 4 feeds | | one event per tap |
| `write_pipeline` | 2 users, 3 writes, pipeline of 2 | 1,103,000 | assertions hold, answers meet their writes, nothing lost or overwritten by something older, `WriteQueue` implemented |
| `write_pipeline_liveness` | 2 users, 2 writes, pipeline of 1, 1 waiter | 418,000 | the queue drains, waiters are told the truth |
| `executor` | 2 callers, disposer, worker, 4 tasks | 122,000 | memory safety, cancelled timers stay quiet, no deadlock, no leak |
| `grpc_stream` | 3 writes, 2 replies | 9,500 | one operation of each type, safe destruction, order, the worker is never stuck, the end is noticed |
| `credentials` | 2 users, 3 changes, 2 starts | 642,000 | own token, right label, the user settles, requests are answered |
| `backoff` | delays 4 to 60 ms, 11 errors | | the curve, and the least distance of attempts |

Why the bounds are enough to be interesting. `auth`, `app`: two addresses are
needed for one user's values to reach another user's document; three calls allow a
registration, a retry of it and a login that comes between them. A call is never
reused, so the bound on `Calls` is the bound on the number of attempts in one
behaviour, restarts included. `form`: the lengths are the two sides of each
condition, the addresses the two sides of each part of the expression; the
theorems of `PageProofs` cover the rest. `write_pipeline`: with three
writes and two slots there is one on disk that is not in the pipeline, one in it
that is not answered and one that is, at the same time, for either user; a batch id
is used again as soon as one write has left the disk. `write_pipeline_liveness`
keeps a write out of the pipeline with one slot. `executor`: four tasks are one
that runs, one that waits, one timer and one that terminates. `credentials`: three
changes are a user who leaves, comes back and leaves while one token is on its way.
`backoff`: the delays have the ratio 15 instead of the code's 60, and eleven errors
reach the largest delay; the theorems cover all values.

`MCAuthManager` and `MCMystagram` number the calls and let them begin in order,
the first with the first address (`Canonical`): calls and addresses are
interchangeable, so every behaviour has one like it that is kept. No fairness is
about the beginning of a call, so liveness is not affected, as symmetry sets
would.

Fairness.

- `AuthManager!Fairness` is weak fairness of each call's own steps: Firebase Auth
  and Storage requests time out, so an answer or an error comes, and the main
  queue runs what is queued. There is none for Firestore's answer: a write made
  off line, or for a user who is no longer signed in, waits for as long as that
  lasts. So `CallsEnd` and `SpinnerEnds` end at `setData`, and a registration page
  without a network shows its HUD for ever.
- `Mystagram` adds weak fairness of the end of a fade, which lasts 0.4 s. The user
  is never forced to do anything and the process is never forced to be launched.
- `WritePipelineCalm`: the worker queue runs a task that is there, a token request
  and a timer come back, and the server answers a call that is up. These are weak
  fairness of `ClientTask` and of `ServerStep`; they are written with the conditions
  `ClientReady` and `ServerReady` for ENABLED, which TLC evaluates much faster. That
  disturbances end is the hypothesis of `QueueDrains`, not an assumption.
- `Executor`: no thread stops inside a call, libdispatch runs what it has, and an
  operation returns. `GrpcStream`: gRPC completes operations of a call that is over
  or cancelled (others only if the server cares to), the polling thread polls, the
  worker queue runs its tasks. `Credentials`: each queue runs what it holds, and
  a request for a token is answered, perhaps with an error.

Deadlock is checked except in `executor`, `grpc_stream`, `credentials` and
`write_pipeline_liveness`, where the bounded operations are used up or the
object is gone, and there is nothing left to do. A Mystagram that has used up its
calls can still be ended and launched.

### Finding

`Scenes/Auth/Login/LoginController.swift:142`: a login that fails opens Main.
`asSignal` turns the error into `false`, and the subscriber ignores the Boolean.
The launch (`if loginCheck()`) and the registration page (`.filter{ $0 }`) both
keep users who are not signed in out. `MainUnsignedMeansFailedLogin` shows that
this is the only way in.

### What the properties allow

The properties state as conditions, or leave open, some things that the code does
and that nothing in the repository promises to be otherwise:

- A registration whose session is replaced before `setData` writes its values
  under the other user's uid, and one that is signed out before it aborts the
  process on `document("")`. `SafeSession` is about the others.
- With an empty `feeds` and ten items Main traps at its first layout
  (`Scenes/Feed/FeedController.swift:96`).
- A committed write may be reported as failed: when a later write fails first,
  `OnOperationFailed` (`core/remote/grpc_stream.cc:313`) finishes the call and
  drops the answers that have arrived and not been read, and `HandleWriteError`
  blames the front of the pipeline. So `NoWriteIsLost` says "decided on", not
  "refused".
- `Stream::Write` asks for `IsOpen()`, which is true until Finish has completed, so
  a write may reach the BufferedWriter after Finish; there it does no harm.
- `ExecutorLibdispatch::Execute` retains a task for libdispatch after it has let
  go of its lock (`executor_libdispatch.mm:114`). Only `AsyncQueue::mutex_`, which is
  held around the call, makes that safe.
- `Dispose` does not wait for a timer that has cancelled itself and runs on.
  `FirestoreClient::Dispose` is safe because it first waits for a task of its own.
- `FirebaseCredentialsProvider` reads the user and then observes the notification:
  constructed off the main thread it could miss a change in between.
- A first attempt does not set `last_attempt_time_`. If it is answered with
  RESOURCE_EXHAUSTED, the delay counts from an earlier time and the stream may try
  again at once; `NoHammering` is about the second error in a row and later ones.

## 4. Proofs

What is proved, by component; each theorem holds for every value of the constants
that satisfies the assumption named. The inductive invariants were checked by TLC
before they were proved: that of `WritePipelineProofs` with the bounds of
`write_pipeline` and with two waiters and two writes (1,499,000 states), the others
with the bounds of their module's run (`UIInv` with those of `app`).

### The program

`AuthManagerProofs`, for every set of addresses and calls, assuming only that
`None` is neither an address nor a document (`NoneAssumption`):

| Theorem | Property |
|---|---|
| `TypeCorrect` | `TypeOK` |
| `StoresAreConsistent` | `Consistent`: stores agree, one chain per account |
| `SessionsAreSafe` | `SafeSession`: own profile, no abort without overlap |
| `SuccessIsTrue` | `TrueIsTrue`: of registrations and of logins |
| `OutcomesAreFinal` | `OneOutcome` |
| `PromiseSuffices` | `ReliesOnPromise`: every step maps to a step of `WriteQueue` or a stutter |

None of the properties is inductive by itself. `IInv` (in `AuthManagerProofs`)
adds

- `ShapeInv`: the fields of a call fit its `pc`; in particular nothing has been
  reported before `done`, which is what makes outcomes final;
- `UploadInv` and `AccountInv`: what a call must have done to be where it is, and
  that the signed-in user has an account;
- `DocInv`: a document belongs to the registration that wrote it, which has
  reached `setData` or died after it, and holds that call's address. This ties
  documents, which survive a restart, to calls, which do not;
- `OwnerInv`: one call per address is past createUser *or has left a document*.
  `OneChainPerAccount` alone is not enough for `RegisteredMeansStored`: a call
  that was lost in a restart is past nothing, but its queued write may still
  overwrite the profile;
- `SessionInv`: a registration that is not overlapped still has its own session,
  the fact that `saveInfoToFirestore` relies on.

Most steps change neither documents nor sessions. `QuietStep` proves the document
parts of `IInv` once for all of them; `AccountCreatedStep`, `SaveInfoStep` and the
two answers to a write are proved on their own.

`PromiseSuffices` maps the mutation queues to `WriteQueue`'s queues and the calls
that wait in `setData` to its `waiting`. It needs from `IInv` that documents in a
queue name the calls that made them, in the order of their writes, so that the
answer to the head is the answer to that call.

A further invariant, `OneWritePerCall` (`WritesAreOfDifferentCalls`): a call has
at most one write in all the queues, and while it is there the call waits in
`setData` or was lost. With it the answer to a write is the first answer to its call,
which the pages rely on.

`MystagramProofs`, for every set of addresses and calls and every number of feeds,
assuming that `None`, which stands for nil, is none of the addresses, calls, documents
or views (`NoneAssumption`):

| Theorem | Property |
|---|---|
| `PagesUseAuthManagerRightly` | `ImplementsAuthManager`: every step is one of `AuthManager`'s or leaves it alone |
| `ProgramIsSafe` | `Consistent`, `SafeSession` and `TrueIsTrue`, of the program |
| `ProgramReliesOnPromise` | `OneOutcome` and `ReliesOnPromise`, of the program |
| `NoSpinnerForNothing` | `SpinnerMeansWaiting` |
| `MainIsOpenedRightly` | `MainUnsignedMeansFailedLogin` |
| `AbandonedCallsAreNotHeard` | `OnlyLatestIsHeard` |

`Facts` is `AuthManagerProofs` with the program's variables. `SameSpec` says that its
specification is that of the instance `Auth` in `Mystagram`, so each theorem about
`AuthManager` can be cited of the program once the refinement is proved, and the
invariants of `AuthManagerProofs` (`AuthInv`) are there for the proofs about the pages.
These use `UIInv`, of which `SpinnerMeansWaiting` is one part. It is not inductive
by itself. That an answer heard by one page does not end what the other page's HUD
waits for depends on `LatestInv` (the latest call of a page is of that page's kind),
and that a new process starts with a clean HUD on `StoppedInv`. `GentleStep` proves
once for all the steps that leave the pages alone, their calls waiting and the user
signed in; taps and the answers that are heard (`TapLoginStep`, `TapSignUpStep`, `LoginAnsweredStep`, `OnRegisteredStep`) are
proved on their own.
`MainIsOpenedRightly` rests on `SignedInv`: between the moment at which Firebase Auth has
set `currentUser` for the login that the page waits for and its callback, nobody signs
out, because logging out takes a page, Main, on which that login is no longer heard.

`PageProofs` has the parts of the pages that are modules of their own. For all
addresses and lengths, assuming of the constants that a relay that has not sent can be
told from one that has (`FormAssumption`), the expression accepts exactly the
well-formed texts (`ValidIffWellFormed`), letters keep an address valid (`TypingOn`),
the button is enabled exactly for a complete form (`EnabledIffComplete`, of
`EnabledMeansComplete`), and a tap sends it (`TapsSendTheForm`, of
`SendsWhatIsShown`). The invariant is that every relay holds what its field shows, and
that the button has the verdict on them as soon as all have sent; the driver leaves it
alone until then, so a relay must never unsend.

For all phones and heights of keyboards that are lengths (`LengthAssumption`), the stack is not covered (`NeverCovered`, of
`NotCovered`) and the page does not creep (`NeverCreeping`, of `NoCreep`); their
conjunction with `TypeOK` is inductive. For any number of cells and feeds a tap sends
one event (`TapsSendOneEvent`, of `OneTapOneEvent`): a cell that is bound or shown has
exactly one subscription, while one in the reuse queue may keep its old one until it is
bound again (`CellInv`).

### The write path

`WritePipelineProofs`, for any users, waiters and number of writes and any capacity
of the pipeline, assuming only that the capacity is not 0 and that `None` is not the
status of a call (`ConstantsAssumption`):

| Theorem | Property |
|---|---|
| `Inductive` | the invariant `IInv` |
| `AssertionsHold` | `NoHardAssert` |
| `AnswersMeetTheirWrites` | `Correlated` |
| `WritesAreKept` | `NoWriteIsLost` |
| `DocumentsDoNotRegress` | `NoRegression` |
| `WaitingEndsRight` | `WaitersWereRight` |
| `KeepsItsPromise` | `KeepsPromise`: the write path implements `WriteQueue` |
| `QueuesNeverGetStuck` | `NeverStuck`, stated beside its proof: no wake-up is lost |

`IInv` has two halves. `Steady` and `CallbacksOnDisk` describe the client between
two tasks:

- `Stored`: every queue is sorted by batch id, and `nextBatchId` is larger than all
  ids on disk;
- `Pipelined`, `Full`: the pipeline is the front of the queue, and as long as it may
  be;
- `Flying`: what has been sent on the call is the front of the pipeline;
- `Timed`, `Streaming`, `Shaken`: which timers, token requests and calls can exist in
  which state of the stream; a stream in use means that the network is in use; an
  open one has its user's token; one that is started and cannot send yet has
  something to send;
- `Going`: with something in the pipeline the stream is started, a stream that is
  starting has a token request under way that no close has overtaken, and one in
  backoff has its timer;
- `CallbacksOnDisk`: whoever waits for an answer waits for a row of the queue, by id
  and by write. Two rows of a user have different ids, so the answer reaches the
  right completion.

A task does not keep `Steady` from call to call. `Core` is what the methods inside
a task keep: while a result is handled the pipeline is not full, and while a stream
is closing its handshake may still be remembered and it is not started again yet.
A user change keeps only `Loose`, between the change and the restart of the
network. There is a lemma for each method (`NotifyUser`, `RemoveMutationBatch`,
`FillWritePipeline`, `Close`, ...) that says which fields it changes and which
parts it keeps, and a lemma for each action, which follows the calls.

`Remembered` relates the client to the server and to what was asked for, and is
needed because the three of them forget at different times:

- `Owned`: a row of a user's queue is a write of that user, and rows are in the order
  of the writes. With this the order of batch ids, which start again, gives way to
  the order of writes, which do not;
- `Forgotten`: a write that is on no disk is older than all that are on its user's,
  was decided on, and has not been replaced by an older one. `NoWriteIsLost` and
  `NoRegression` follow from it, but only with the order is it inductive;
- `Kept`: the server's document is a write of its own user;
- `Delivered`: answers that are still to be read are about committed writes that the
  document has not gone behind; and if the call has ended with an error that is final,
  the write that is next to be answered is the one that was refused. So dropping a
  write from disk, on an answer or an error, keeps `Forgotten`;
- `ToldRight`: what completions were told;
- `Waited`: the batch that a waiter waits for is the last of those it has to wait
  for.

`KeepsItsPromise` takes `IInv` and `IInv'` of every step, and shows which step of
`WriteQueue` it is: `setData`, the answer to the head of a queue (with the one
completion that hears of it, if it is still there), a user change, a restart, or
none.

`QueuesNeverGetStuck` is the part of `QueueDrains` that needs no fairness. With the
network in use and a write on disk the pipeline is not empty (`Full`), so the stream
is started (`Going`), and in each state of a started stream something is under way:
a token, a timer, a message of the handshake or of the call, or its end. The run
adds that taking these steps gets somewhere.

### What carries it

`CredentialsProofs`, for any users and any number of changes and starts, assuming
only that `Nobody`, "asked" and "error" are not users (`CredentialsAssumption`):
`OwnToken` (`StreamsCarryOwnToken`) and `RightLabel` (`TokensAreLabelledRight`).
The argument is that news travels in order. The last news on the main queue is Auth's
user, and when there is none the provider knows that user (`MainNews`); the same holds
of the provider, the worker queue and SyncEngine (`WorkerNews`). A token on a queue
is that of the user whom the receiver knows when it gets there, unless there is
news ahead of it (`FetchRight`, `MainRight`, `WorkerRight`). And if there was, the
token is not used: the notice has increased `token_counter`, so the provider answers with
an error, or the stream was closed by it and `close_count` is larger than the
request's. Counters only grow, so a stale request never becomes current again
(`Requests`).

`GrpcStreamProofs`, for any number of writes and replies: `TypeOK`
(`TypeCorrect`), `NotMisused` (`RulesAreKept`), `SafeToDestroy` (`ProperShutdown`)
and `InOrder` (`MessagesInOrder`). `Accounted` says where a completion is: with gRPC, or
posted to the worker queue, never both and at most one of a type; and that none is
posted while the worker queue waits for the others. `Dying` says that the call is over
before a completion fails or Finish is started, which is why the wait ends and
nothing follows the last write; `Active`, `Reading` and `Writing` say in which one
place each message is, and that the places in their order count without a gap.

`ExponentialBackoffProofs` proves, for all delays, `TypeOK` and `NoHammering`
(`AttemptsAreSpaced`). Its invariant bounds `remaining + sinceAttempt` from below while
the stream backs off: the delay counts from the last attempt that had backed off, which
is the last attempt of all once there have been two errors in a row.

`FollowsCurve` (`WaitsFollowTheCurve`) compares the delays with a function that is
defined by recursion. That there is such a function, and what its points are, is
proved without an induction schema: if a point were wrong there would be a least
wrong one (`LeastNatural`, from the well-foundedness of `<`), and the equation makes
it right. `CurvesExist` and `CurvesAgree` give beginnings of the curve of every length
that agree, `CurveUnfolds` puts them together, and `CurveFacts` says that each point
is `Grown` from the one before. The invariant `CurveInv` adds to `IInv` that
`current_base_` is the point that the next error will need, except for a stream that
rests after an error, whose backoff is still to come (`BaseInv`). `Grown` lifts a base
to at least `initial_delay`, which the curve does not; that the two agree needs that
no point after the first is smaller than `initial_delay`.

`ExecutorProofs` proves, for any number of tasks and callers and assuming only that
the callers, the disposer and the worker are different threads, `TypeOK`,
`NoUseAfterFree` (`NothingIsUsedAfterFree`) and `RefCountIsOwners`
(`RefCountsAreRight`). Its invariant says that at most one of the executor and the
threads owns a task, beside libdispatch (`OwnerInv`); that a task being enqueued is
not yet dispatched and cannot be taken out of the executor by anybody else, since
`AsyncQueue::mutex_` is held until then (`InsertInv`); what the worker's task can be
(`ExecInv`); and that a task which will call the executor is still in it, or with a
thread that is about to cancel it (`FlagInv`), so that nothing calls it once Dispose
has returned. Every action has its lemma, with one step for each part of the
invariant.

A second invariant, `QuietInv`, gives `CancelledStaysQuiet`
(`CancelledTasksStayQuiet`). A task that has been cancelled and has not started is
still with the worker, which can start nothing before it has marked it
(`CancelInv`). A task that runs is in the executor, or with the thread that disposes
of it and will wait for it, or has cancelled itself; the worker, which does not wait,
runs only the task that disposes (`DisposeInv`). And in a `FirestoreClient` nothing is
scheduled after `TerminateInternal`, because the mode has changed before it was made and
no operation was being enqueued then, so no later task can cancel itself (`ClientInv`).

### Only model-checked

The liveness properties (`CallsEnd`, `SpinnerEnds`, `QueueDrains`,
`DisposeReturns`, `NothingLeaks`, `WorkerNotStuck`, `EndIsNoticed`, `SettlesOnUser`,
`RequestIsAnswered`), because fairness and ENABLED are out of the prover's reach.
What `QueueDrains` rests on, that a queue always has a step that carries it on, is
proved (`QueuesNeverGetStuck`).
Every other property of a passing run is a theorem.

## 5. Not modelled

- The Search, ImageSelect, Notification and Profile scenes, the entities, custom
  views, `UIHelper`, `AppDelegate`: no state that changes, or appearance only.
- Passwords, names and image data as values; Firestore rules and quotas (a
  rejection is a nondeterministic answer).
- Several scenes or windows at once: `switchToSomeVC` uses the first connected
  scene, and the program declares one.
- Firestore's listen path (targets, watch stream, limbo documents, views, local
  cache and its garbage collection), transactions and queries: the program only
  writes. Its unary gRPC calls and streaming readers serve those.
- Tests' entrances to AsyncQueue (`RunScheduledOperationsUntil`,
  `ExecuteBlocking`).
- The other pods (BoringSSL, gRPC core, leveldb, abseil, nanopb, SnapKit and
  others): general-purpose libraries that the program reaches only through the
  code above. Most of the repository's lines are theirs.

## 6. Plan

Done: the program (`AuthManager`, `Mystagram`, `Form`, `Keyboard`, `FeedCells`),
Firestore's write path (`WriteQueue`, `WritePipeline`, `ExponentialBackoff`,
`Executor`, `GrpcStream`, `Credentials`), the refinements that join them, and the
proofs of all their safety properties.

Left:

1. An abstract specification of a registration (nothing, account, profile) that
   `AuthManager` implements, so that a partial registration is stated as such.
2. A composition of `Credentials` with `WritePipeline`: today the first shows that a
   stream carries its own user's token, and the second assumes it when it lets a
   token request succeed.
