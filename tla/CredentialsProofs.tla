------------------------- MODULE CredentialsProofs -------------------------
(***************************************************************************)
(* Whose token a stream carries, for any number of users, changes of user  *)
(* and starts of the stream.                                               *)
(*                                                                         *)
(* News travels in order, so a queue that holds none has been overtaken by *)
(* nothing: its receiver knows what its sender knows.  A token is right    *)
(* unless news is ahead of it, and news that is delivered first makes its  *)
(* request stale (token_counter, close_count).                             *)
(***************************************************************************)
EXTENDS Credentials, SequenceTheorems, TLAPS

Fetch == [user : Users \cup {"asked"}, request : Request]

Client == [user : Anyone, stream : {"none", "Initial", "Starting", "Open"},
           close_count : Nat, starts : Nat, token : Anyone]

Typed ==
  /\ auth \in [user : Anyone, changes : Nat]
  /\ fetching \subseteq Fetch
  /\ main \in Seq(MainBlock)
  /\ worker \in Seq(WorkerTask)
  /\ provider \in [stage : {"none", "observing", "listening"},
                   current_user : Anyone, token_counter : Nat]
  /\ client \in Client

\* A message on the main queue or the worker queue is either a token or news of
\* the user.
News(message)    == message.kind # "token"
NewsIn(q)        == \E j \in 1..Len(q) : News(q[j])
NewsBefore(q, i) == \E j \in 1..Len(q) : j < i /\ News(q[j])
NewsAfter(q, i)  == \E j \in 1..Len(q) : i < j /\ News(q[j])

\* The last news on a queue is what its sender knows; with no news left its
\* receiver knows it too.
MainNews ==
  /\ \A i \in 1..Len(main) :
       News(main[i]) /\ ~NewsAfter(main, i) => main[i].user = auth.user
  /\ provider.stage # "none" /\ ~NewsIn(main) => provider.current_user = auth.user

WorkerNews ==
  /\ \A i \in 1..Len(worker) :
       News(worker[i]) /\ ~NewsAfter(worker, i) => worker[i].user = provider.current_user
  /\ client.stream # "none" /\ ~NewsIn(worker) => client.user = provider.current_user

NoTokens(queue) == \A i \in 1..Len(queue) : News(queue[i])

\* FirestoreClient is initialized once, before it is used.
Setup ==
  /\ provider.stage # "listening" => worker = <<>> /\ client.stream = "none"
  /\ client.stream = "none" =>
       /\ fetching = {}
       /\ NoTokens(main)
       /\ NoTokens(worker)
  /\ provider.stage = "listening" /\ client.stream = "none" =>
       worker # <<>> /\ worker[1].kind = "Initialize"
  /\ \A i \in 1..Len(worker) :
       worker[i].kind = "Initialize" => i = 1 /\ client.stream = "none"

\* A request was made no later than now, and the stream for which it was made
\* has not been closed unless close_count says so.
RequestOK(request) ==
  /\ request.counter =< provider.token_counter
  /\ request.close =< client.close_count
  /\ request.close = client.close_count => client.stream \in {"Starting", "Open"}

Requests ==
  /\ \A r \in fetching : RequestOK(r.request)
  /\ \A i \in 1..Len(main) : main[i].kind = "token" => RequestOK(main[i].request)
  /\ \A i \in 1..Len(worker) : worker[i].kind = "token" =>
       /\ worker[i].close =< client.close_count
       /\ worker[i].close = client.close_count => client.stream \in {"Starting", "Open"}

\* A token that is not overtaken is one of the user its next stop believes in.
FetchRight ==
  \A r \in fetching :
    /\ r.user # "asked" /\ r.request.counter = provider.token_counter
    /\ ~NewsIn(main)
    => r.user = auth.user

MainRight ==
  \A i \in 1..Len(main) :
    /\ main[i].kind = "token" /\ main[i].request.counter = provider.token_counter
    /\ ~NewsBefore(main, i)
    => main[i].user \in {"error", provider.current_user}

WorkerRight ==
  \A i \in 1..Len(worker) :
    /\ worker[i].kind = "token" /\ worker[i].close = client.close_count
    /\ ~NewsBefore(worker, i)
    => worker[i].user \in {"error", client.user}

\* The inductive invariant.
IInv ==
  /\ Typed /\ MainNews /\ WorkerNews /\ Setup /\ Requests
  /\ FetchRight /\ MainRight /\ WorkerRight /\ OwnToken /\ RightLabel

-----------------------------------------------------------------------------
\* r is q with x behind it, or q without its head: what happens to the messages
\* and to the news before and after them.
Put(q, x, r) ==
  /\ \A i \in 1..Len(r) :
       \/ /\ i \in 1..Len(q) /\ r[i] = q[i]
          /\ NewsBefore(r, i) <=> NewsBefore(q, i)
          /\ NewsAfter(r, i) <=> NewsAfter(q, i) \/ News(x)
       \/ /\ i = Len(q) + 1 /\ r[i] = x
          /\ NewsBefore(r, i) <=> NewsIn(q)
          /\ ~NewsAfter(r, i)
  /\ NewsIn(r) <=> NewsIn(q) \/ News(x)
  /\ r # <<>> /\ r[1] = IF q = <<>> THEN x ELSE q[1]

Taken(q, r) ==
  /\ \A i \in 1..Len(r) :
       /\ i + 1 \in 1..Len(q) /\ i + 1 # 1 /\ r[i] = q[i + 1]
       /\ NewsBefore(q, i + 1) <=> News(q[1]) \/ NewsBefore(r, i)
       /\ NewsAfter(r, i) <=> NewsAfter(q, i + 1)
  /\ NewsIn(q) <=> News(q[1]) \/ NewsIn(r)
  /\ 1 \in 1..Len(q) /\ ~NewsBefore(q, 1)
  /\ NewsAfter(q, 1) <=> NewsIn(r)

\* Append puts a message behind a queue.
LEMMA PutBehind ==
  ASSUME NEW S, NEW q \in Seq(S), NEW x \in S
  PROVE  Append(q, x) \in Seq(S) /\ Put(q, x, Append(q, x))
<1> DEFINE r == Append(q, x)
<1>1. /\ r \in Seq(S) /\ Len(q) \in Nat /\ Len(r) = Len(q) + 1
      /\ \A j \in 1..Len(q) : r[j] = q[j]
      /\ r[Len(q) + 1] = x
  BY AppendProperties, LenProperties
<1>2. 1..Len(r) = 1..Len(q) \cup {Len(q) + 1}
  BY <1>1
<1> HIDE DEF r
<1>3. NewsIn(r) <=> NewsIn(q) \/ News(x)
  BY <1>1, <1>2 DEF NewsIn
<1>4. ASSUME NEW i \in 1..Len(q)
      PROVE  /\ NewsBefore(r, i) <=> NewsBefore(q, i)
             /\ NewsAfter(r, i) <=> NewsAfter(q, i) \/ News(x)
  BY <1>1, <1>2 DEF NewsBefore, NewsAfter
<1>5. /\ NewsBefore(r, Len(q) + 1) <=> NewsIn(q)
      /\ ~NewsAfter(r, Len(q) + 1)
  BY <1>1, <1>2 DEF NewsBefore, NewsAfter, NewsIn
<1>6. r # <<>> /\ r[1] = IF q = <<>> THEN x ELSE q[1]
  BY <1>1, EmptySeq
<1>7. Put(q, x, r)
  BY <1>1, <1>2, <1>3, <1>4, <1>5, <1>6 DEF Put
<1> QED
  BY <1>1, <1>7 DEF r

\* Head and Tail take the first message away.
LEMMA TakenAway ==
  ASSUME NEW S, NEW q \in Seq(S), q # <<>>
  PROVE  Tail(q) \in Seq(S) /\ Head(q) = q[1] /\ q[1] \in S /\ Taken(q, Tail(q))
<1> DEFINE r == Tail(q)
<1>1. /\ r \in Seq(S) /\ Head(q) = q[1] /\ Len(r) \in Nat /\ Len(q) = Len(r) + 1
      /\ \A j \in 1..Len(r) : r[j] = q[j + 1]
  BY HeadTailProperties, LenProperties
<1>2. q[1] \in S
  BY <1>1, HeadTailProperties
<1> HIDE DEF r
<1>3. /\ \A j \in 1..Len(q) : j = 1 \/ \E k \in 1..Len(r) : j = k + 1 /\ r[k] = q[j]
      /\ \A j \in 1..Len(r) : j + 1 \in 1..Len(q)
      /\ 1 \in 1..Len(q)
  <2>1. ASSUME NEW j \in 1..Len(q), j # 1
        PROVE  \E k \in 1..Len(r) : j = k + 1 /\ r[k] = q[j]
    <3>1. \E k \in 1..Len(r) : j = k + 1
      <4>1. j - 1 \in 1..Len(r) /\ j = (j - 1) + 1
        BY <1>1, <2>1
      <4> QED
        BY <4>1
    <3> QED
      BY <1>1, <3>1
  <2>2. \A j \in 1..Len(r) : j + 1 \in 1..Len(q)
    BY <1>1
  <2>3. 1 \in 1..Len(q)
    BY <1>1
  <2> QED
    BY <2>1, <2>2, <2>3
<1>4. ASSUME NewsIn(q)
      PROVE  News(q[1]) \/ NewsIn(r)
  BY <1>3, <1>4 DEF NewsIn
<1>5. ASSUME NewsIn(r)
      PROVE  NewsIn(q) /\ NewsAfter(q, 1)
  <2>1. PICK j \in 1..Len(r) : News(r[j])
    BY <1>5 DEF NewsIn
  <2>2. j + 1 \in 1..Len(q) /\ 1 < j + 1 /\ News(q[j + 1])
    BY <1>1, <2>1
  <2> QED
    BY <2>2 DEF NewsIn, NewsAfter
<1>6. ASSUME News(q[1])
      PROVE  NewsIn(q)
  BY <1>3, <1>6 DEF NewsIn
<1>7. ASSUME NewsAfter(q, 1)
      PROVE  NewsIn(r)
  BY <1>1, <1>3, <1>7 DEF NewsIn, NewsAfter
<1>8. ~NewsBefore(q, 1)
  BY <1>1 DEF NewsBefore
<1>9. ASSUME NEW i \in 1..Len(r)
      PROVE  /\ NewsBefore(q, i + 1) <=> News(q[1]) \/ NewsBefore(r, i)
             /\ NewsAfter(r, i) <=> NewsAfter(q, i + 1)
  <2>1. ASSUME NewsBefore(r, i)
        PROVE  NewsBefore(q, i + 1)
    <3>1. PICK j \in 1..Len(r) : j < i /\ News(r[j])
      BY <2>1 DEF NewsBefore
    <3>2. j + 1 \in 1..Len(q) /\ j + 1 < i + 1 /\ News(q[j + 1])
      BY <1>1, <3>1
    <3> QED
      BY <3>2 DEF NewsBefore
  <2>2. ASSUME News(q[1])
        PROVE  NewsBefore(q, i + 1)
    BY <1>1, <1>3, <2>2 DEF NewsBefore
  <2>3. ASSUME NewsBefore(q, i + 1), ~News(q[1])
        PROVE  NewsBefore(r, i)
    <3>1. PICK j \in 1..Len(q) : j < i + 1 /\ News(q[j])
      BY <2>3 DEF NewsBefore
    <3>2. PICK k \in 1..Len(r) : j = k + 1 /\ r[k] = q[j]
      BY <1>3, <2>3, <3>1
    <3>3. k < i /\ News(r[k])
      BY <1>1, <3>1, <3>2
    <3> QED
      BY <3>3 DEF NewsBefore
  <2>4. ASSUME NewsAfter(r, i)
        PROVE  NewsAfter(q, i + 1)
    <3>1. PICK j \in 1..Len(r) : i < j /\ News(r[j])
      BY <2>4 DEF NewsAfter
    <3>2. j + 1 \in 1..Len(q) /\ i + 1 < j + 1 /\ News(q[j + 1])
      BY <1>1, <3>1
    <3> QED
      BY <3>2 DEF NewsAfter
  <2>5. ASSUME NewsAfter(q, i + 1)
        PROVE  NewsAfter(r, i)
    <3>1. PICK j \in 1..Len(q) : i + 1 < j /\ News(q[j])
      BY <2>5 DEF NewsAfter
    <3>2. PICK k \in 1..Len(r) : j = k + 1 /\ r[k] = q[j]
      BY <1>1, <1>3, <3>1
    <3>3. i < k /\ News(r[k])
      BY <1>1, <3>1, <3>2
    <3> QED
      BY <3>3 DEF NewsAfter
  <2> QED
    BY <2>1, <2>2, <2>3, <2>4, <2>5
<1>10. Taken(q, r)
  BY <1>1, <1>3, <1>4, <1>5, <1>6, <1>7, <1>8, <1>9 DEF Taken
<1> QED
  BY <1>1, <1>2, <1>10 DEF r

-----------------------------------------------------------------------------
\* Stream::Close leaves a stream that is not started, and counts it.
LEMMA Closed ==
  ASSUME NEW c \in Client
  PROVE  /\ Close(c) \in Client /\ Close(c).user = c.user
         /\ Close(c).stream \notin {"Starting", "Open"}
         /\ Close(c).stream = "none" <=> c.stream = "none"
         /\ Close(c).close_count =
              IF c.stream \in {"Starting", "Open"} THEN c.close_count + 1 ELSE c.close_count
<1>1. CASE c.stream \in {"Starting", "Open"}
  <2>1. Close(c) = [c EXCEPT !.stream = "Initial", !.close_count = @ + 1, !.token = Nobody]
    BY <1>1 DEF Close
  <2>2. c.close_count + 1 \in Nat
    BY DEF Client
  <2>3. Close(c) \in Client
    BY <2>1, <2>2 DEF Client, Anyone
  <2> QED
    BY <1>1, <2>1, <2>3 DEF Client
<1>2. CASE c.stream \notin {"Starting", "Open"}
  BY <1>2 DEF Client, Close
<1> QED
  BY <1>1, <1>2

\* Stream::Start and RequestCredentials.
LEMMA Started ==
  ASSUME NEW c \in Client, StartFrom(c)
  PROVE  /\ client' \in Client /\ client'.user = c.user
         /\ client'.stream = "Starting" /\ client'.close_count = c.close_count
         /\ fetching' = fetching \cup {GetToken(c.close_count)}
<1>1. client' = [c EXCEPT !.stream = "Starting", !.starts = @ + 1]
  BY DEF StartFrom
<1>2. c.starts + 1 \in Nat
  BY DEF Client
<1>3. client' \in Client
  BY <1>1, <1>2 DEF Client
<1>4. fetching' = fetching \cup {GetToken(c.close_count)}
  BY DEF StartFrom
<1> QED
  BY <1>1, <1>3, <1>4 DEF Client

\* The counters of a request are numbers wherever it is carried.
LEMMA Counters ==
  ASSUME Typed
  PROVE  /\ \A r \in fetching : r.request \in Request
         /\ \A i \in 1..Len(main) : main[i].kind = "token" => main[i].request \in Request
         /\ \A i \in 1..Len(worker) : worker[i].kind = "token" => worker[i].close \in Nat
<1>1. \A r \in fetching : r \in Fetch
  BY DEF Typed
<1>2. \A i \in 1..Len(main) : main[i] \in MainBlock
  BY ElementOfSeq DEF Typed
<1>3. \A i \in 1..Len(worker) : worker[i] \in WorkerTask
  BY ElementOfSeq DEF Typed
<1> QED
  BY <1>1, <1>2, <1>3 DEF Fetch, MainBlock, WorkerTask

\* Auth has a new user or a new token: the news goes behind everything on main.
LEMMA updateCurrentUserStep ==
  ASSUME IInv, NEW user \in Anyone, updateCurrentUser(user)
  PROVE  IInv'
<1>1. /\ auth' = [user |-> user, changes |-> auth.changes + 1]
      /\ main' = Append(main, Notify(user))
      /\ UNCHANGED <<fetching, provider, worker, client>>
  BY DEF updateCurrentUser
<1>2. /\ Notify(user) \in MainBlock /\ Notify(user).user = user
      /\ Notify(user).kind = "notify"
  BY DEF Notify, MainBlock
<1>3. main' \in Seq(MainBlock) /\ Put(main, Notify(user), main')
  BY <1>1, <1>2, PutBehind DEF IInv, Typed
<1>4. Typed'
  BY <1>1, <1>2 DEF IInv, Typed
<1>5. MainNews'
  BY <1>1, <1>2, <1>3 DEF MainNews, News, Put
<1>6. WorkerNews'
  BY <1>1 DEF IInv, WorkerNews
<1>7. Setup'
  BY <1>1, <1>2 DEF IInv, Setup, NoTokens, News
<1>8. Requests'
  BY <1>1, <1>2 DEF IInv, Requests, RequestOK
<1>9. FetchRight'
  BY <1>2, <1>3 DEF FetchRight, News, Put
<1>10. MainRight'
  BY <1>1, <1>2, <1>3 DEF IInv, MainRight, Put
<1>11. WorkerRight'
  BY <1>1 DEF IInv, WorkerRight
<1>12. OwnToken'
  BY <1>1 DEF IInv, OwnToken
<1>13. RightLabel'
  BY <1>1 DEF IInv, RightLabel
<1> QED
  BY <1>4, <1>5, <1>6, <1>7, <1>8, <1>9, <1>10, <1>11, <1>12, <1>13 DEF IInv

\* The provider observes Auth and knows its user; nothing has been asked for.
LEMMA ConstructStep ==
  ASSUME IInv, Construct
  PROVE  IInv'
<1>1. /\ provider.stage = "none"
      /\ provider' \in [stage : {"none", "observing", "listening"},
                        current_user : Anyone, token_counter : Nat]
      /\ provider'.stage = "observing" /\ provider'.current_user = auth.user
      /\ provider'.token_counter = provider.token_counter
      /\ UNCHANGED <<auth, fetching, main, worker, client>>
  BY DEF IInv, Typed, Construct
<1>2. worker = <<>> /\ fetching = {} /\ NoTokens(main)
      /\ client.stream = "none"
  BY <1>1 DEF IInv, Setup
<1>3. \A i \in 1..Len(<<>>) : FALSE
  OBVIOUS
<1>4. Typed'
  BY <1>1 DEF IInv, Typed
<1>5. MainNews'
  BY <1>1 DEF IInv, MainNews
<1>6. WorkerNews'
  BY <1>1, <1>2 DEF WorkerNews
<1>7. Setup'
  BY <1>1 DEF IInv, Setup
<1>8. Requests'
  BY <1>1 DEF IInv, Requests, RequestOK
<1>9. FetchRight'
  BY <1>1, <1>2 DEF FetchRight
<1>10. MainRight'
  BY <1>1, <1>2 DEF MainRight, NoTokens, News
<1>11. WorkerRight'
  BY <1>1, <1>2 DEF WorkerRight
<1>12. OwnToken'
  BY <1>1, <1>2 DEF OwnToken
<1>13. RightLabel'
  BY <1>1, <1>2 DEF RightLabel
<1> QED
  BY <1>4, <1>5, <1>6, <1>7, <1>8, <1>9, <1>10, <1>11, <1>12, <1>13 DEF IInv

\* The listener enqueues Initialize, the first task there is.
LEMMA SetCredentialChangeListenerStep ==
  ASSUME IInv, SetCredentialChangeListener
  PROVE  IInv'
<1>1. /\ provider.stage = "observing"
      /\ provider' \in [stage : {"none", "observing", "listening"},
                        current_user : Anyone, token_counter : Nat]
      /\ provider'.stage = "listening" /\ provider'.current_user = provider.current_user
      /\ provider'.token_counter = provider.token_counter
      /\ worker' = Append(worker, [kind |-> "Initialize", user |-> provider.current_user])
      /\ UNCHANGED <<auth, fetching, main, client>>
  BY DEF IInv, Typed, SetCredentialChangeListener
<1>2. [kind |-> "Initialize", user |-> provider.current_user] \in WorkerTask
  BY DEF IInv, Typed, WorkerTask
<1>3. /\ worker' \in Seq(WorkerTask)
      /\ Put(worker, [kind |-> "Initialize", user |-> provider.current_user], worker')
  BY <1>1, <1>2, PutBehind DEF IInv, Typed
<1>4. worker = <<>> /\ fetching = {} /\ NoTokens(main)
      /\ client.stream = "none"
  BY <1>1 DEF IInv, Setup
<1>5. \A i \in 1..Len(<<>>) : FALSE
  OBVIOUS
<1>6. Len(<<>>) + 1 = 1
  OBVIOUS
<1>7. Typed'
  BY <1>1, <1>3 DEF IInv, Typed
<1>8. MainNews'
  BY <1>1 DEF IInv, MainNews
<1>9. WorkerNews'
  BY <1>1, <1>4 DEF WorkerNews
<1>10. Setup'
  BY <1>1, <1>4 DEF Setup, NoTokens, News
<1>11. Requests'
  BY <1>1 DEF IInv, Requests, RequestOK
<1>12. FetchRight'
  BY <1>1, <1>4 DEF FetchRight
<1>13. MainRight'
  BY <1>1 DEF IInv, MainRight
<1>14. WorkerRight'
  BY <1>1, <1>4 DEF WorkerRight
<1>15. OwnToken'
  BY <1>1, <1>4 DEF OwnToken
<1>16. RightLabel'
  BY <1>1, <1>4 DEF RightLabel
<1> QED
  BY <1>7, <1>8, <1>9, <1>10, <1>11, <1>12, <1>13, <1>14, <1>15, <1>16 DEF IInv

\* News moves from main to the worker queue; every request under way is now stale.
LEMMA AuthStateDidChangeStep ==
  ASSUME IInv, AuthStateDidChange
  PROVE  IInv'
<1>1. main # <<>> /\ main' = Tail(main) /\ UNCHANGED <<auth, fetching, client>>
  BY DEF AuthStateDidChange
<1>2. /\ main' \in Seq(MainBlock) /\ Taken(main, main')
      /\ Head(main) = main[1] /\ main[1] \in MainBlock
  BY <1>1, TakenAway DEF IInv, Typed
<1>3. main[1].kind = "notify" /\ News(main[1]) /\ main[1].user \in Anyone
  BY <1>2 DEF AuthStateDidChange, News, MainBlock
<1>4. /\ provider.stage = "none" => provider' = provider
      /\ provider.stage # "none" =>
           provider' = [provider EXCEPT !.current_user = main[1].user, !.token_counter = @ + 1]
  BY <1>2 DEF AuthStateDidChange
<1>5. provider.token_counter \in Nat /\ provider.token_counter + 1 \in Nat
  BY DEF IInv, Typed
<1>6. /\ provider' \in [stage : {"none", "observing", "listening"},
                       current_user : Anyone, token_counter : Nat]
      /\ provider'.stage = provider.stage
      /\ provider.stage # "none" =>
           /\ provider'.current_user = main[1].user
           /\ provider'.token_counter = provider.token_counter + 1
  BY <1>3, <1>4, <1>5 DEF IInv, Typed
<1>7. [kind |-> "change", user |-> main[1].user] \in WorkerTask
  BY <1>3 DEF WorkerTask
<1>8. \/ /\ provider.stage # "listening" /\ worker' = worker /\ worker = <<>>
         /\ client.stream = "none"
      \/ /\ provider.stage = "listening" /\ worker' \in Seq(WorkerTask)
         /\ Put(worker, [kind |-> "change", user |-> main[1].user], worker')
  BY <1>7, PutBehind DEF IInv, Typed, Setup, AuthStateDidChange
<1>9. \A i \in 1..Len(<<>>) : FALSE
  OBVIOUS
<1>10. Typed'
  BY <1>1, <1>2, <1>3, <1>4, <1>5, <1>8 DEF IInv, Typed
<1>11. MainNews'
  <2>1. \A i \in 1..Len(main') :
          News(main'[i]) /\ ~NewsAfter(main', i) => main'[i].user = auth'.user
    BY <1>1, <1>2 DEF IInv, MainNews, Taken
  <2>2. ~NewsIn(main') => main[1].user = auth.user
    BY <1>2, <1>3 DEF IInv, MainNews, Taken
  <2> QED
    BY <1>1, <1>6, <2>1, <2>2 DEF MainNews
<1>12. WorkerNews'
  BY <1>1, <1>6, <1>8 DEF WorkerNews, News, Put
<1>13. Setup'
  <2>1. CASE provider.stage # "listening"
    BY <1>1, <1>6, <1>8, <2>1 DEF IInv, Setup, NoTokens
  <2>2. CASE provider.stage = "listening"
    <3>1. provider'.stage = "listening"
      BY <1>6, <2>2
    <3>2. client'.stream = "none" => fetching' = {} /\ NoTokens(main)'
      BY <1>1 DEF IInv, Setup, NoTokens
    <3>3. client'.stream = "none" => NoTokens(worker)'
      BY <1>1, <1>8 DEF IInv, Setup, NoTokens, Put, News
    <3>4. client'.stream = "none" => worker' # <<>> /\ worker'[1].kind = "Initialize"
      BY <1>1, <1>8, <2>2 DEF IInv, Setup, Put
    <3>5. \A i \in 1..Len(worker') :
            worker'[i].kind = "Initialize" => i = 1 /\ client'.stream = "none"
      BY <1>1, <1>8 DEF IInv, Setup, Put
    <3> QED
      BY <3>1, <3>2, <3>3, <3>4, <3>5 DEF Setup
  <2> QED
    BY <2>1, <2>2
<1>14. Requests'
  <2>0. \A n \in Nat : n =< provider.token_counter => n =< provider'.token_counter
    BY <1>4, <1>5, <1>6
  <2>4. /\ \A r \in fetching : r.request.counter \in Nat
        /\ \A i \in 1..Len(main) : main[i].kind = "token" => main[i].request.counter \in Nat
    BY Counters DEF IInv, Request
  <2>1. ASSUME NEW r \in fetching'
        PROVE  RequestOK(r.request)'
    BY <1>1, <2>0, <2>4 DEF IInv, Requests, RequestOK
  <2>2. ASSUME NEW i \in 1..Len(main'), main'[i].kind = "token"
        PROVE  RequestOK(main[i].request)'
    BY <2>2, <1>1, <2>0, <2>4 DEF IInv, Requests, RequestOK
  <2>3. ASSUME NEW i \in 1..Len(worker'), worker'[i].kind = "token"
        PROVE  (/\ worker[i].close =< client.close_count
                /\ worker[i].close = client.close_count =>
                     client.stream \in {"Starting", "Open"})'
    BY <2>3, <1>1, <1>8 DEF IInv, Requests, Put
  <2> QED
    BY <2>1, <2>2, <2>3 DEF Requests
<1>15. FetchRight'
  BY <1>1, <1>5, <1>6 DEF IInv, FetchRight, Setup, Requests, RequestOK
<1>16. MainRight'
  BY <1>1, <1>5, <1>6 DEF IInv, MainRight, Setup, NoTokens, Requests, RequestOK,
     News, Taken
<1>17. WorkerRight'
  BY <1>1, <1>6, <1>8 DEF IInv, WorkerRight, WorkerNews, Put
<1>18. OwnToken'
  BY <1>1 DEF IInv, OwnToken
<1>19. RightLabel'
  BY <1>8 DEF IInv, RightLabel, Put
<1> QED
  BY <1>10, <1>11, <1>12, <1>13, <1>14, <1>15, <1>16, <1>17, <1>18, <1>19 DEF IInv

\* Auth settles whose token it is, its present user's.
LEMMA GetTokenBlockStep ==
  ASSUME IInv, NEW r \in fetching, GetTokenBlock(r)
  PROVE  IInv'
<1>1. r.user = "asked" /\ r \in Fetch /\ UNCHANGED <<auth, provider, worker, client>>
  BY DEF IInv, Typed, GetTokenBlock
<1>2. client.stream # "none" /\ provider.stage = "listening"
  BY DEF IInv, Setup
<1>3. [kind |-> "token", user |-> Nobody, request |-> r.request] \in MainBlock
  BY <1>1 DEF Fetch, MainBlock, Anyone
<1>4. auth.user \in Users \/ auth.user = Nobody
  BY DEF IInv, Typed, Anyone
<1>5. \/ /\ auth.user = Nobody /\ fetching' = fetching \ {r} /\ main' \in Seq(MainBlock)
         /\ Put(main, [kind |-> "token", user |-> Nobody, request |-> r.request], main')
      \/ /\ auth.user \in Users /\ main' = main
         /\ fetching' = (fetching \ {r}) \cup {[r EXCEPT !.user = auth.user]}
  <2>1. CASE auth.user = Nobody
    <3>1. /\ fetching' = fetching \ {r}
          /\ main' = Append(main, [kind |-> "token", user |-> Nobody, request |-> r.request])
      BY <2>1 DEF GetTokenBlock
    <3> QED
      BY <1>3, <2>1, <3>1, PutBehind DEF IInv, Typed
  <2>2. CASE auth.user # Nobody
    BY <1>4, <2>2 DEF GetTokenBlock
  <2> QED
    BY <2>1, <2>2
<1>6. auth.user \in Users =>
        /\ [r EXCEPT !.user = auth.user] \in Fetch
        /\ [r EXCEPT !.user = auth.user].user = auth.user
        /\ [r EXCEPT !.user = auth.user].request = r.request
  BY <1>1 DEF Fetch
<1>7. Typed'
  BY <1>1, <1>5, <1>6 DEF IInv, Typed
<1>8. MainNews'
  BY <1>1, <1>5 DEF IInv, MainNews, Put
<1>9. WorkerNews'
  BY <1>1 DEF IInv, WorkerNews
<1>10. Setup'
  BY <1>1 DEF IInv, Setup
<1>11. Requests'
  <2>1. ASSUME NEW q \in fetching'
        PROVE  RequestOK(q.request)'
    BY <1>1, <1>5, <1>6 DEF IInv, Requests, RequestOK
  <2>2. ASSUME NEW i \in 1..Len(main'), main'[i].kind = "token"
        PROVE  RequestOK(main[i].request)'
    BY <2>2, <1>1, <1>5 DEF IInv, Requests, RequestOK, Put
  <2>3. ASSUME NEW i \in 1..Len(worker'), worker'[i].kind = "token"
        PROVE  (/\ worker[i].close =< client.close_count
                /\ worker[i].close = client.close_count =>
                     client.stream \in {"Starting", "Open"})'
    BY <2>3, <1>1 DEF IInv, Requests
  <2> QED
    BY <2>1, <2>2, <2>3 DEF Requests
<1>12. FetchRight'
  BY <1>1, <1>5, <1>6 DEF IInv, FetchRight, Put
<1>13. MainRight'
  BY <1>1, <1>2, <1>5 DEF IInv, MainRight, MainNews, Put
<1>14. WorkerRight'
  BY <1>1 DEF IInv, WorkerRight
<1>15. OwnToken'
  BY <1>1 DEF IInv, OwnToken
<1>16. RightLabel'
  BY <1>1 DEF IInv, RightLabel
<1> QED
  BY <1>7, <1>8, <1>9, <1>10, <1>11, <1>12, <1>13, <1>14, <1>15, <1>16 DEF IInv

\* A stale token is asked for again; a right one goes on the worker queue.
LEMMA TokenCallbackStep ==
  ASSUME IInv, TokenCallback
  PROVE  IInv'
<1>1. /\ main # <<>> /\ main' = Tail(main) /\ UNCHANGED <<auth, provider, client>>
  BY DEF TokenCallback
<1>2. /\ main' \in Seq(MainBlock) /\ Taken(main, main')
      /\ Head(main) = main[1] /\ main[1] \in MainBlock
  BY <1>1, TakenAway DEF IInv, Typed
<1>3. /\ main[1].kind = "token" /\ ~News(main[1]) /\ main[1].request \in Request
      /\ main[1].user \in Anyone \cup {"error"}
  BY <1>2 DEF TokenCallback, News, MainBlock
<1>4. client.stream # "none" /\ provider.stage = "listening"
      /\ 1 \in 1..Len(main)
  BY <1>2, <1>3 DEF IInv, Setup, NoTokens, Taken
<1>5. RequestOK(main[1].request)
  BY <1>3, <1>4 DEF IInv, Requests
<1>6. /\ GetToken(main[1].request.close) \in Fetch
      /\ GetToken(main[1].request.close).user = "asked"
      /\ RequestOK(GetToken(main[1].request.close).request)
  BY <1>3, <1>5 DEF IInv, Typed, Fetch, Request, RequestOK, GetToken
<1>7. PICK w : w = [kind |-> "token", user |-> main[1].user,
                 label |-> IF main[1].user \in Users THEN provider.current_user
                           ELSE Nobody,
                 close |-> main[1].request.close]
  OBVIOUS
<1>8. /\ w \in WorkerTask /\ w.kind = "token" /\ ~News(w) /\ w.user = main[1].user
      /\ w.close = main[1].request.close
      /\ w.label = IF main[1].user \in Users THEN provider.current_user ELSE Nobody
  BY <1>3, <1>7 DEF IInv, Typed, WorkerTask, News, Anyone, Request
<1>9. \/ /\ fetching' = fetching \cup {GetToken(main[1].request.close)}
         /\ worker' = worker
      \/ /\ main[1].request.counter = provider.token_counter /\ fetching' = fetching
         /\ worker' = Append(worker, w)
  BY <1>7 DEF TokenCallback, Complete
<1>10. worker' = Append(worker, w) => worker' \in Seq(WorkerTask) /\ Put(worker, w, worker')
  BY <1>8, PutBehind DEF IInv, Typed
<1>11. main[1].request.counter = provider.token_counter =>
         main[1].user \in {"error", provider.current_user}
  BY <1>2, <1>3 DEF IInv, MainRight, Taken
<1>12. Typed'
  BY <1>1, <1>6, <1>9, <1>10 DEF IInv, Typed
<1>13. MainNews'
  BY <1>1, <1>2, <1>3 DEF IInv, MainNews, Taken
<1>14. WorkerNews'
  BY <1>1, <1>8, <1>9, <1>10 DEF IInv, WorkerNews, Put
<1>15. Setup'
  BY <1>1, <1>4, <1>5, <1>8, <1>9 DEF IInv, Setup, NoTokens
<1>16. Requests'
  <2>1. ASSUME NEW r \in fetching'
        PROVE  RequestOK(r.request)'
    BY <1>1, <1>6, <1>9 DEF IInv, Requests, RequestOK
  <2>2. ASSUME NEW i \in 1..Len(main'), main'[i].kind = "token"
        PROVE  RequestOK(main[i].request)'
    BY <2>2, <1>1 DEF IInv, Requests, RequestOK
  <2>3. ASSUME NEW i \in 1..Len(worker'), worker'[i].kind = "token"
        PROVE  (/\ worker[i].close =< client.close_count
                /\ worker[i].close = client.close_count =>
                     client.stream \in {"Starting", "Open"})'
    BY <2>3, <1>1, <1>3, <1>5, <1>8, <1>9, <1>10 DEF IInv, Requests, RequestOK
  <2> QED
    BY <2>1, <2>2, <2>3 DEF Requests
<1>17. FetchRight'
  BY <1>1, <1>2, <1>3, <1>6, <1>9 DEF IInv, FetchRight, Taken
<1>18. MainRight'
  BY <1>1, <1>2, <1>3 DEF IInv, MainRight, Taken
<1>19. WorkerRight'
  BY <1>1, <1>4, <1>8, <1>9, <1>10, <1>11 DEF IInv, WorkerRight, WorkerNews, Put
<1>20. OwnToken'
  BY <1>1 DEF IInv, OwnToken
<1>21. RightLabel'
  BY <1>3, <1>8, <1>9, <1>11 DEF IInv, RightLabel, Anyone
<1> QED
  BY <1>12, <1>13, <1>14, <1>15, <1>16, <1>17, <1>18, <1>19, <1>20, <1>21 DEF IInv

\* A stream starts and asks for a token.
LEMMA StartStreamStep ==
  ASSUME IInv, StartStream
  PROVE  IInv'
<1>1. client \in Client /\ client.stream = "Initial" /\ StartFrom(client)
      /\ UNCHANGED <<auth, main, provider, worker>>
  BY DEF IInv, Typed, StartStream
<1>2. /\ client' \in Client /\ client'.user = client.user
      /\ client'.stream = "Starting" /\ client'.close_count = client.close_count
      /\ fetching' = fetching \cup {GetToken(client.close_count)}
  BY <1>1, Started
<1>3. /\ GetToken(client.close_count) \in Fetch
      /\ GetToken(client.close_count).user = "asked"
      /\ GetToken(client.close_count).request.counter = provider.token_counter
      /\ GetToken(client.close_count).request.close = client.close_count
      /\ client.close_count \in Nat /\ provider.token_counter \in Nat
  BY DEF IInv, Typed, Client, GetToken, Fetch, Request
<1>4. Typed'
  BY <1>1, <1>2, <1>3 DEF IInv, Typed
<1>5. MainNews'
  BY <1>1 DEF IInv, MainNews
<1>6. WorkerNews'
  BY <1>1, <1>2 DEF IInv, WorkerNews
<1>7. Setup'
  BY <1>1, <1>2 DEF IInv, Setup
<1>8. Requests'
  BY <1>1, <1>2, <1>3 DEF IInv, Requests, RequestOK
<1>9. FetchRight'
  BY <1>1, <1>2, <1>3 DEF IInv, FetchRight
<1>10. MainRight'
  BY <1>1 DEF IInv, MainRight
<1>11. WorkerRight'
  BY <1>1, <1>2 DEF IInv, WorkerRight
<1>12. OwnToken'
  BY <1>2 DEF OwnToken
<1>13. RightLabel'
  BY <1>1 DEF IInv, RightLabel
<1> QED
  BY <1>4, <1>5, <1>6, <1>7, <1>8, <1>9, <1>10, <1>11, <1>12, <1>13 DEF IInv

\* A stream is closed: no request is for the next one.
LEMMA CloseStreamStep ==
  ASSUME IInv, CloseStream
  PROVE  IInv'
<1>1. client \in Client /\ client.stream \in {"Starting", "Open"} /\ client' = Close(client)
      /\ UNCHANGED <<auth, fetching, main, provider, worker>>
  BY DEF IInv, Typed, CloseStream
<1>2. /\ client' \in Client /\ client'.user = client.user
      /\ client'.stream \notin {"none", "Starting", "Open"}
      /\ client'.close_count = client.close_count + 1 /\ client.close_count \in Nat
  BY <1>1, Closed DEF Client
<1>3. /\ \A r \in fetching : r.request.close \in Nat
      /\ \A i \in 1..Len(main) : main[i].kind = "token" => main[i].request.close \in Nat
      /\ \A i \in 1..Len(worker) : worker[i].kind = "token" => worker[i].close \in Nat
  BY Counters DEF IInv, Request
<1>4. Typed'
  BY <1>1, <1>2 DEF IInv, Typed
<1>5. MainNews'
  BY <1>1 DEF IInv, MainNews
<1>6. WorkerNews'
  BY <1>1, <1>2 DEF IInv, WorkerNews
<1>7. Setup'
  BY <1>1, <1>2 DEF IInv, Setup
<1>8. Requests'
  BY <1>1, <1>2, <1>3 DEF IInv, Requests, RequestOK
<1>9. FetchRight'
  BY <1>1 DEF IInv, FetchRight
<1>10. MainRight'
  BY <1>1 DEF IInv, MainRight
<1>11. WorkerRight'
  BY <1>1, <1>2 DEF IInv, WorkerRight, Requests
<1>12. OwnToken'
  BY <1>2 DEF OwnToken
<1>13. RightLabel'
  BY <1>1 DEF IInv, RightLabel
<1> QED
  BY <1>4, <1>5, <1>6, <1>7, <1>8, <1>9, <1>10, <1>11, <1>12, <1>13 DEF IInv

\* SyncEngine learns its first user.
LEMMA InitializeStep ==
  ASSUME IInv, Initialize
  PROVE  IInv'
<1>1. /\ worker # <<>> /\ worker' = Tail(worker)
      /\ UNCHANGED <<auth, fetching, main, provider>>
  BY DEF Initialize
<1>2. /\ worker' \in Seq(WorkerTask) /\ Taken(worker, worker')
      /\ Head(worker) = worker[1] /\ worker[1] \in WorkerTask
  BY <1>1, TakenAway DEF IInv, Typed
<1>3. worker[1].kind = "Initialize" /\ News(worker[1]) /\ worker[1].user \in Anyone
      /\ 1 \in 1..Len(worker)
  BY <1>2 DEF Initialize, News, WorkerTask
<1>4. /\ client.stream = "none" /\ fetching = {} /\ NoTokens(main) /\ NoTokens(worker)
      /\ provider.stage = "listening"
  BY <1>3 DEF IInv, Setup
<1>5. /\ client' \in Client /\ client'.user = worker[1].user
      /\ client'.stream = "Initial" /\ client'.close_count = client.close_count
  BY <1>2, <1>3 DEF IInv, Typed, Client, Initialize
<1>6. Typed'
  BY <1>1, <1>5 DEF IInv, Typed
<1>7. MainNews'
  BY <1>1 DEF IInv, MainNews
<1>8. WorkerNews'
  BY <1>1, <1>2, <1>3, <1>5 DEF IInv, WorkerNews, Taken
<1>9. Setup'
  BY <1>1, <1>5 DEF IInv, Setup
<1>10. Requests'
  BY <1>1, <1>4, <1>5 DEF IInv, Requests, RequestOK
<1>11. FetchRight'
  BY <1>1, <1>4 DEF FetchRight
<1>12. MainRight'
  BY <1>1 DEF IInv, MainRight
<1>13. WorkerRight'
  BY <1>1, <1>4, <1>5 DEF IInv, WorkerRight, Requests
<1>14. OwnToken'
  BY <1>5 DEF OwnToken
<1>15. RightLabel'
  BY <1>1 DEF IInv, RightLabel
<1> QED
  BY <1>6, <1>7, <1>8, <1>9, <1>10, <1>11, <1>12, <1>13, <1>14, <1>15 DEF IInv

\* SyncEngine learns another user: the tokens asked for so far are for no stream.
LEMMA HandleCredentialChangeStep ==
  ASSUME IInv, HandleCredentialChange
  PROVE  IInv'
<1>1. worker # <<>> /\ worker' = Tail(worker) /\ UNCHANGED <<auth, main, provider>>
  BY DEF HandleCredentialChange
<1>2. /\ worker' \in Seq(WorkerTask) /\ Taken(worker, worker')
      /\ Head(worker) = worker[1] /\ worker[1] \in WorkerTask
  BY <1>1, TakenAway DEF IInv, Typed
<1>3. worker[1].kind = "change" /\ News(worker[1]) /\ worker[1].user \in Anyone
      /\ 1 \in 1..Len(worker)
  BY <1>2 DEF HandleCredentialChange, News, WorkerTask
<1>4. client.stream # "none" /\ provider.stage = "listening"
  BY <1>3 DEF IInv, Setup
<1>5. PICK c : c = [client EXCEPT !.user = worker[1].user]
  OBVIOUS
<1>6. /\ c \in Client /\ c.user = worker[1].user /\ c.stream = client.stream
      /\ c.close_count = client.close_count /\ client.close_count \in Nat
  BY <1>3, <1>5 DEF IInv, Typed, Client
<1>7. \/ client' = Close(c) /\ fetching' = fetching
      \/ StartFrom(Close(c))
  BY <1>5 DEF HandleCredentialChange
<1>8. /\ Close(c) \in Client /\ Close(c).user = worker[1].user
      /\ Close(c).stream \notin {"none", "Starting", "Open"}
      /\ Close(c).close_count = IF client.stream \in {"Starting", "Open"}
                                THEN client.close_count + 1 ELSE client.close_count
  BY <1>4, <1>6, Closed
<1>9. /\ client' \in Client /\ client'.user = worker[1].user
      /\ client'.close_count = Close(c).close_count
      /\ \/ client'.stream \notin {"none", "Starting", "Open"} /\ fetching' = fetching
         \/ /\ client'.stream = "Starting"
            /\ fetching' = fetching \cup {GetToken(client'.close_count)}
  BY <1>7, <1>8, Started
<1>10. /\ GetToken(client'.close_count) \in Fetch
       /\ GetToken(client'.close_count).user = "asked"
       /\ GetToken(client'.close_count).request.counter = provider.token_counter
       /\ GetToken(client'.close_count).request.close = client'.close_count
       /\ provider.token_counter \in Nat /\ client'.close_count \in Nat
  BY <1>9 DEF IInv, Typed, Client, GetToken, Fetch, Request
<1>11. /\ \A r \in fetching :
            /\ r.request.counter =< provider.token_counter
            /\ r.request.close =< client'.close_count /\ r.request.close # client'.close_count
       /\ \A i \in 1..Len(main) : main[i].kind = "token" =>
            /\ main[i].request.counter =< provider.token_counter
            /\ main[i].request.close =< client'.close_count
            /\ main[i].request.close # client'.close_count
       /\ \A i \in 1..Len(worker) :
            worker[i].kind = "token" =>
              worker[i].close =< client'.close_count /\ worker[i].close # client'.close_count
  BY <1>6, <1>8, <1>9, Counters DEF Request, IInv, Requests, RequestOK
<1>12. Typed'
  BY <1>1, <1>9, <1>10 DEF IInv, Typed
<1>13. MainNews'
  BY <1>1 DEF IInv, MainNews
<1>14. WorkerNews'
  BY <1>1, <1>2, <1>3, <1>9 DEF IInv, WorkerNews, Taken
<1>15. Setup'
  BY <1>1, <1>9 DEF IInv, Setup
<1>16. Requests'
  <2>1. ASSUME NEW r \in fetching'
        PROVE  RequestOK(r.request)'
    BY <1>1, <1>9, <1>10, <1>11 DEF RequestOK
  <2>2. ASSUME NEW i \in 1..Len(main'), main'[i].kind = "token"
        PROVE  RequestOK(main[i].request)'
    BY <2>2, <1>1, <1>11 DEF RequestOK
  <2>3. ASSUME NEW i \in 1..Len(worker'), worker'[i].kind = "token"
        PROVE  (/\ worker[i].close =< client.close_count
                /\ worker[i].close = client.close_count =>
                     client.stream \in {"Starting", "Open"})'
    BY <2>3, <1>1, <1>11
  <2> QED
    BY <2>1, <2>2, <2>3 DEF Requests
<1>17. FetchRight'
  BY <1>1, <1>9, <1>10 DEF IInv, FetchRight
<1>18. MainRight'
  BY <1>1 DEF IInv, MainRight
<1>19. WorkerRight'
  BY <1>1, <1>11 DEF WorkerRight
<1>20. OwnToken'
  BY <1>9 DEF OwnToken
<1>21. RightLabel'
  BY <1>1 DEF IInv, RightLabel
<1> QED
  BY <1>12, <1>13, <1>14, <1>15, <1>16, <1>17, <1>18, <1>19, <1>20, <1>21 DEF IInv

\* The stream opens with the token that was asked for it, unless it is closed.
LEMMA TokenArrivesStep ==
  ASSUME IInv, TokenArrives
  PROVE  IInv'
<1>1. /\ worker # <<>> /\ worker' = Tail(worker)
      /\ UNCHANGED <<auth, fetching, main, provider>>
  BY DEF TokenArrives
<1>2. /\ worker' \in Seq(WorkerTask) /\ Taken(worker, worker')
      /\ Head(worker) = worker[1] /\ worker[1] \in WorkerTask
  BY <1>1, TakenAway DEF IInv, Typed
<1>3. /\ worker[1].kind = "token" /\ ~News(worker[1]) /\ 1 \in 1..Len(worker)
      /\ worker[1].user \in Anyone \cup {"error"}
  BY <1>2 DEF TokenArrives, News, WorkerTask
<1>4. /\ client.stream # "none" /\ client \in Client /\ client.close_count \in Nat
      /\ worker[1].close = client.close_count => client.stream \in {"Starting", "Open"}
  BY <1>3 DEF IInv, Typed, Client, Setup, Requests
<1>5. worker[1].user # "error" =>
        [client EXCEPT !.stream = "Open", !.token = worker[1].user] \in Client
  BY <1>3, <1>4 DEF Client
<1>6. /\ client' \in Client /\ client'.user = client.user
      /\ \/ client' = client
         \/ /\ worker[1].close = client.close_count
            /\ client'.stream \notin {"none", "Starting", "Open"}
            /\ client'.close_count = client.close_count + 1
         \/ /\ worker[1].close = client.close_count /\ worker[1].user # "error"
            /\ client'.close_count = client.close_count
            /\ client'.stream = "Open" /\ client'.token = worker[1].user
  <2>1. CASE worker[1].close # client.close_count
    BY <1>4, <2>1 DEF TokenArrives
  <2>2. CASE worker[1].close = client.close_count /\ worker[1].user = "error"
    <3>1. client' = Close(client)
      BY <2>2 DEF TokenArrives
    <3> QED
      BY <1>4, <2>2, <3>1, Closed
  <2>3. CASE worker[1].close = client.close_count /\ worker[1].user # "error"
    <3>1. client' = [client EXCEPT !.stream = "Open", !.token = worker[1].user]
      BY <1>2, <2>3 DEF TokenArrives
    <3> QED
      BY <1>5, <2>3, <3>1
  <2> QED
    BY <2>1, <2>2, <2>3
<1>7. /\ \A r \in fetching : r.request.close \in Nat
      /\ \A i \in 1..Len(main) : main[i].kind = "token" => main[i].request.close \in Nat
      /\ \A i \in 1..Len(worker) : worker[i].kind = "token" => worker[i].close \in Nat
  BY Counters DEF IInv, Request
<1>8. Typed'
  BY <1>1, <1>6 DEF IInv, Typed
<1>9. MainNews'
  BY <1>1 DEF IInv, MainNews
<1>10. WorkerNews'
  BY <1>1, <1>2, <1>3, <1>4, <1>6 DEF IInv, WorkerNews, Taken
<1>11. Setup'
  BY <1>1, <1>3, <1>6 DEF IInv, Setup
<1>12. Requests'
  BY <1>1, <1>3, <1>6, <1>7 DEF IInv, Requests, RequestOK, Setup, Taken
<1>13. FetchRight'
  BY <1>1 DEF IInv, FetchRight
<1>14. MainRight'
  BY <1>1 DEF IInv, MainRight
<1>15. WorkerRight'
  BY <1>2, <1>3, <1>4, <1>6 DEF IInv, WorkerRight, Requests, Taken
<1>16. OwnToken'
  BY <1>2, <1>3, <1>6 DEF IInv, OwnToken, WorkerRight, Taken
<1>17. RightLabel'
  BY <1>1 DEF IInv, RightLabel
<1> QED
  BY <1>8, <1>9, <1>10, <1>11, <1>12, <1>13, <1>14, <1>15, <1>16, <1>17 DEF IInv

\* A token goes on main, behind the news of what its fetch changed.
LEMMA FetchAccessTokenStep ==
  ASSUME IInv, NEW r \in fetching,
         NEW result \in {"valid", "updated", "error", "invalid"},
         FetchAccessToken(r, result)
  PROVE  IInv'
<1>1. r.user \in Users /\ r \in Fetch /\ UNCHANGED <<provider, worker, client>>
      /\ fetching' = fetching \ {r}
  BY DEF IInv, Typed, Fetch, FetchAccessToken
<1>2. client.stream # "none" /\ provider.stage = "listening"
  BY DEF IInv, Setup
<1>3. PICK t : t = [kind |-> "token",
                user |-> IF result \in {"error", "invalid"} THEN "error" ELSE r.user,
                request |-> r.request]
  OBVIOUS
<1>4. /\ t \in MainBlock /\ t.kind = "token" /\ ~News(t) /\ t.request = r.request
      /\ t.user \in {"error", r.user}
  BY <1>1, <1>3 DEF Fetch, MainBlock, Anyone, News
<1>5. PICK user \in Anyone : user = IF result = "invalid" THEN Nobody ELSE auth.user
  BY DEF IInv, Typed, Anyone
<1>6. /\ Notify(user) \in MainBlock /\ Notify(user).user = user
      /\ Notify(user).kind = "notify" /\ News(Notify(user))
  BY DEF Notify, MainBlock, News
<1>7. PICK m : m = Append(main, Notify(user))
  OBVIOUS
<1>8. m \in Seq(MainBlock) /\ Put(main, Notify(user), m)
  BY <1>6, <1>7, PutBehind DEF IInv, Typed
<1>9. \/ auth' = auth /\ main' = Append(main, t)
      \/ /\ auth' \in [user : Anyone, changes : Nat] /\ auth'.user = user
         /\ main' = Append(m, t)
  <2>1. main \in Seq(MainBlock)
    BY DEF IInv, Typed
  <2>2. CASE result \in {"updated", "invalid"} /\ r.user = auth.user
    <3>1. auth' = [user |-> user, changes |-> auth.changes + 1]
      BY <1>5, <2>2 DEF FetchAccessToken
    <3>2. main' = (main \o <<Notify(user)>>) \o <<t>>
      BY <1>3, <1>5, <2>2 DEF FetchAccessToken
    <3>3. main \o <<Notify(user)>> = m
      BY <1>7
    <3>4. m \o <<t>> = Append(m, t)
      BY <1>4
    <3> QED
      BY <3>1, <3>2, <3>3 DEF IInv, Typed
  <2>3. CASE ~(result \in {"updated", "invalid"} /\ r.user = auth.user)
    <3>1. auth' = auth /\ main' = (main \o <<>>) \o <<t>>
      BY <1>3, <2>3 DEF FetchAccessToken
    <3>2. main \o <<>> = main
      BY <2>1
    <3>3. main \o <<t>> = Append(main, t)
      BY <1>4
    <3> QED
      BY <3>1
  <2> QED
    BY <2>2, <2>3
<1>10. main' \in Seq(MainBlock) /\ auth' \in [user : Anyone, changes : Nat]
       /\ \/ auth' = auth /\ Put(main, t, main')
          \/ auth'.user = user /\ Put(m, t, main')
  <2>1. main \in Seq(MainBlock) /\ auth \in [user : Anyone, changes : Nat]
    BY DEF IInv, Typed
  <2>2. /\ Append(main, t) \in Seq(MainBlock) /\ Put(main, t, Append(main, t))
        /\ Append(m, t) \in Seq(MainBlock) /\ Put(m, t, Append(m, t))
    BY <1>4, <1>8, <2>1, PutBehind
  <2> QED
    BY <1>9, <2>1, <2>2
<1>11. Typed'
  BY <1>1, <1>10 DEF IInv, Typed
<1>12. MainNews'
  BY <1>1, <1>4, <1>6, <1>8, <1>10 DEF IInv, MainNews, Put
<1>13. WorkerNews'
  BY <1>1 DEF IInv, WorkerNews
<1>14. Setup'
  BY <1>1 DEF IInv, Setup
<1>15. Requests'
  <2>1. ASSUME NEW q \in fetching'
        PROVE  RequestOK(q.request)'
    BY <1>1 DEF IInv, Requests, RequestOK
  <2>2. ASSUME NEW i \in 1..Len(main'), main'[i].kind = "token"
        PROVE  RequestOK(main[i].request)'
    BY <2>2, <1>1, <1>4, <1>6, <1>8, <1>10 DEF IInv, Requests, RequestOK, Put
  <2>3. ASSUME NEW i \in 1..Len(worker'), worker'[i].kind = "token"
        PROVE  (/\ worker[i].close =< client.close_count
                /\ worker[i].close = client.close_count =>
                     client.stream \in {"Starting", "Open"})'
    BY <2>3, <1>1 DEF IInv, Requests
  <2> QED
    BY <2>1, <2>2, <2>3 DEF Requests
<1>16. FetchRight'
  BY <1>1, <1>6, <1>8, <1>10 DEF IInv, FetchRight, Put
<1>17. MainRight'
  <2>1. CASE auth' = auth /\ Put(main, t, main')
    <3>1. t.request.counter = provider.token_counter /\ ~NewsIn(main)
          => t.user \in {"error", provider.current_user}
      BY <1>1, <1>2, <1>4, CredentialsAssumption DEF IInv, MainNews, FetchRight
    <3> QED
      BY <1>1, <2>1, <3>1 DEF IInv, MainRight, Put
  <2>2. CASE auth'.user = user /\ Put(m, t, main')
    <3>1. NewsIn(m)
      BY <1>6, <1>8 DEF Put
    <3>2. ASSUME NEW i \in 1..Len(m), m[i].kind = "token"
          PROVE  i \in 1..Len(main) /\ m[i] = main[i] /\ (NewsBefore(m, i) <=> NewsBefore(main, i))
      BY <1>6, <1>8, <3>2 DEF Put
    <3> QED
      BY <1>1, <2>2, <3>1, <3>2 DEF IInv, MainRight, Put
  <2> QED
    BY <1>10, <2>1, <2>2
<1>18. WorkerRight'
  BY <1>1 DEF IInv, WorkerRight
<1>19. OwnToken'
  BY <1>1 DEF IInv, OwnToken
<1>20. RightLabel'
  BY <1>1 DEF IInv, RightLabel
<1> QED
  BY <1>11, <1>12, <1>13, <1>14, <1>15, <1>16, <1>17, <1>18, <1>19, <1>20 DEF IInv

\* A step of another component changes nothing.
LEMMA StutterStep ==
  ASSUME IInv, UNCHANGED vars
  PROVE  IInv'
BY DEF vars, IInv, Typed, MainNews, WorkerNews, Setup, Requests, RequestOK,
   FetchRight, MainRight, WorkerRight, OwnToken, RightLabel

-----------------------------------------------------------------------------
\* Nothing is under way at first.
LEMMA InitInv ==
  ASSUME Init
  PROVE  IInv
<1>1. /\ auth \in [user : Anyone, changes : {0}] /\ fetching = {}
      /\ main = <<>> /\ worker = <<>>
      /\ provider = [stage |-> "none", current_user |-> Nobody, token_counter |-> 0]
      /\ client = [user |-> Nobody, stream |-> "none", close_count |-> 0, starts |-> 0,
                   token |-> Nobody]
  BY DEF Init
<1>2. \A i \in 1..Len(<<>>) : FALSE
  OBVIOUS
<1>3. Typed
  BY <1>1 DEF Typed, Client, Anyone
<1>4. Setup /\ Requests
  BY <1>1, <1>2 DEF Setup, NoTokens, Requests
<1>5. MainNews /\ WorkerNews
  BY <1>1, <1>2 DEF MainNews, WorkerNews
<1>6. FetchRight /\ MainRight /\ WorkerRight /\ OwnToken /\ RightLabel
  BY <1>1, <1>2 DEF FetchRight, MainRight, WorkerRight, OwnToken, RightLabel
<1> QED
  BY <1>3, <1>4, <1>5, <1>6 DEF IInv

\* Every step preserves the inductive invariant.
LEMMA NextInv ==
  ASSUME IInv, [Next]_vars
  PROVE  IInv'
<1>1. CASE \E user \in Anyone : updateCurrentUser(user)
  BY <1>1, updateCurrentUserStep
<1>2. CASE Construct \/ SetCredentialChangeListener
  BY <1>2, ConstructStep, SetCredentialChangeListenerStep
<1>3. CASE AuthStep
  BY <1>3, GetTokenBlockStep, FetchAccessTokenStep DEF AuthStep
<1>4. CASE MainStep
  BY <1>4, AuthStateDidChangeStep, TokenCallbackStep DEF MainStep
<1>5. CASE WorkerStep
  BY <1>5, InitializeStep, HandleCredentialChangeStep, TokenArrivesStep DEF WorkerStep
<1>6. CASE StartStream \/ CloseStream
  BY <1>6, StartStreamStep, CloseStreamStep
<1>7. CASE UNCHANGED vars
  BY <1>7, StutterStep
<1> QED
  BY <1>1, <1>2, <1>3, <1>4, <1>5, <1>6, <1>7 DEF Next

(***************************************************************************)
(* The inductive invariant holds: news and tokens stay in order on their   *)
(* way from Auth to the stream, whatever else happens in between.          *)
(***************************************************************************)
THEOREM Inductive == Spec => []IInv
<1>1. Init => IInv
  BY InitInv
<1>2. IInv /\ [Next]_vars => IInv'
  BY NextInv
<1> QED
  BY <1>1, <1>2, PTL DEF Spec

(***************************************************************************)
(* An open stream carries a token of the user whose writes SyncEngine      *)
(* sends on it (Stream::ResumeStartWithCredentials), for any users and any *)
(* number of changes, requests and restarts under way.                     *)
(***************************************************************************)
THEOREM StreamsCarryOwnToken == Spec => []OwnToken
<1>1. IInv => OwnToken
  BY DEF IInv
<1> QED
  BY <1>1, Inductive, PTL

(***************************************************************************)
(* get_token_callback hands out Token{token, current_user} only for a      *)
(* token of current_user.                                                  *)
(***************************************************************************)
THEOREM TokensAreLabelledRight == Spec => []RightLabel
<1>1. IInv => RightLabel
  BY DEF IInv
<1> QED
  BY <1>1, Inductive, PTL

=============================================================================
