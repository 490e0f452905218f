-------------------------- MODULE AuthManagerProofs --------------------------
(***************************************************************************)
(* The safety properties of AuthManager, for every set of addresses and    *)
(* every set of calls.                                                     *)
(***************************************************************************)
EXTENDS Naturals, AuthManager, TLAPS

(***************************************************************************)
(* The inductive invariant.                                                *)
(***************************************************************************)

\* A call's fields fit its pc: only registrations store anything, and a call
\* has reported nothing before it is done.
CallShape(c) ==
  /\ calls[c].pc = "idle" => calls[c].op = "none"
  /\ calls[c].pc # "idle" => calls[c].op # "none" /\ calls[c].email \in Emails
  /\ calls[c].pc \in StorePC => IsRegister(c)
  /\ calls[c].pc # "done" => calls[c].result = "none"
  /\ IsRegister(c) => calls[c].result # "error"

\* An upload is finished before its URL is asked for.
Uploaded(c) ==
  \/ calls[c].pc \in {"downloadURL", "setData"}
  \/ IsRegister(c) /\ calls[c].result = "true"

\* The server agreed to the call.
Agreed(c) ==
  calls[c].pc \in {"granted", "session"} \cup StorePC \/ calls[c].result = "true"

\* The call wrote a document that is stored or queued.
Author(c) == \E e \in Emails : \E doc \in Written(e) : doc.profileImageURL = c

ShapeInv   == \A c \in Calls : CallShape(c)
UploadInv  == \A c \in Calls : Uploaded(c) => c \in images
AccountInv == /\ \A c \in Calls : Agreed(c) => calls[c].email \in accounts
              /\ currentUser # None => currentUser \in accounts

\* A document holds what its call was given, and goes with it.
DocInv == \A e \in Emails : \A doc \in Written(e) :
            /\ doc \in Doc
            /\ doc.uid = e /\ e \in accounts
            /\ doc.profileImageURL \in images
            /\ IsRegister(doc.profileImageURL)
            /\ calls[doc.profileImageURL].pc \in {"setData", "done", "lost"}
            /\ calls[doc.profileImageURL].email = doc.email
            /\ doc.email \in accounts

\* One call per address gets past createUser; it may have died since and
\* left only its document.
OwnerInv == \A c, d \in Calls :
              /\ Created(c) \/ Author(c)
              /\ Created(d) \/ Author(d)
              /\ calls[c].email = calls[d].email
              => c = d

\* A registration relies on a session that is its own.
SessionInv == \A c \in Calls :
                InChain(c) /\ c \notin overlapped => currentUser = calls[c].email

IInv == /\ TypeOK /\ ShapeInv /\ UploadInv /\ AccountInv /\ DocInv /\ OwnerInv
        /\ SessionInv /\ OwnProfile /\ RegisteredMeansStored /\ BadPathMeansOverlap

-----------------------------------------------------------------------------
(***************************************************************************)
(* Documents.                                                              *)
(***************************************************************************)

\* Append adds one document to a queue of documents.
LEMMA AppendRange ==
  ASSUME NEW q \in Seq(Doc), NEW doc \in Doc, NEW i \in DOMAIN Append(q, doc)
  PROVE  Append(q, doc)[i] = doc \/ \E j \in DOMAIN q : Append(q, doc)[i] = q[j]
  OBVIOUS

\* Tail keeps only documents that were in the queue, and the head was.
LEMMA TailRange ==
  ASSUME NEW q \in Seq(Doc), q # <<>>
  PROVE  /\ Tail(q) \in Seq(Doc)
         /\ \A i \in DOMAIN Tail(q) : \E j \in DOMAIN q : Tail(q)[i] = q[j]
         /\ 1 \in DOMAIN q /\ Head(q) = q[1] /\ Head(q) \in Doc
  OBVIOUS

\* No document appears or disappears with the stores unchanged.
LEMMA WrittenSame ==
  ASSUME UNCHANGED <<users, mutationQueue>>, NEW e
  PROVE  Written(e)' = Written(e)
  BY DEF Written, Queued

(***************************************************************************)
(* A quiet step writes no document, takes nothing out of a store and lets  *)
(* no further registration past createUser: Launch, Terminate, the taps    *)
(* and all answers but those of createUser and Firestore.                  *)
(***************************************************************************)
Settled == {"setData", "done", "lost"}

Quiet ==
  /\ UNCHANGED <<users, mutationQueue>>
  /\ accounts \subseteq accounts'
  /\ images \subseteq images'
  /\ overlapped \subseteq overlapped'
  /\ \A c \in Calls :
       /\ calls[c].pc # "idle" => /\ calls'[c].op = calls[c].op
                                  /\ calls'[c].email = calls[c].email
       /\ calls[c].pc \in Settled => calls'[c].pc \in Settled
       /\ Created(c)' => Created(c)
       /\ IsRegister(c) /\ calls'[c].result = "true" => calls[c].result = "true"

\* A quiet step preserves the parts of the invariant about documents.
LEMMA QuietStep ==
  ASSUME IInv, Quiet
  PROVE  DocInv' /\ OwnerInv' /\ OwnProfile' /\ RegisteredMeansStored'
<1> USE DEF IInv, Quiet
<1>1. \A e : Written(e)' = Written(e)
  BY WrittenSame
<1>2. DocInv'
  <2> SUFFICES ASSUME NEW e \in Emails, NEW doc \in Written(e)
               PROVE  /\ doc \in Doc
                      /\ doc.uid = e /\ e \in accounts'
                      /\ doc.profileImageURL \in images'
                      /\ IsRegister(doc.profileImageURL)'
                      /\ calls'[doc.profileImageURL].pc \in Settled
                      /\ calls'[doc.profileImageURL].email = doc.email
                      /\ doc.email \in accounts'
    BY <1>1 DEF DocInv, Settled
  <2>1. doc \in Doc /\ doc.profileImageURL \in Calls
    BY DEF DocInv, Doc
  <2> QED
    BY <2>1 DEF DocInv, Settled, IsRegister
<1>3. \A c \in Calls : Author(c)' => Author(c) /\ calls[c].pc # "idle"
  BY <1>1 DEF Author, DocInv
<1>4. \A c \in Calls : Created(c) => calls[c].pc # "idle"
  BY DEF ShapeInv, CallShape, Created, IsRegister
<1>5. OwnerInv'
  <2> SUFFICES ASSUME NEW c \in Calls, NEW d \in Calls,
                      Created(c)' \/ Author(c)', Created(d)' \/ Author(d)',
                      calls'[c].email = calls'[d].email
               PROVE  c = d
    BY DEF OwnerInv
  <2>1. calls[c].email = calls[d].email
    BY <1>3, <1>4
  <2> QED
    BY <1>3, <2>1 DEF OwnerInv
<1>6. OwnProfile'
  BY <1>1 DEF OwnProfile
<1>7. RegisteredMeansStored'
  <2> SUFFICES ASSUME NEW c \in Calls, IsRegister(c)', calls'[c].result = "true"
               PROVE  /\ calls'[c].email \in accounts'
                      /\ c \in images'
                      /\ c \notin overlapped' =>
                           /\ users[calls'[c].email] # None
                           /\ users[calls'[c].email].profileImageURL \in {c} \cup overlapped'
    BY DEF RegisteredMeansStored
  <2>1. IsRegister(c) /\ calls[c].result = "true" /\ calls'[c].email = calls[c].email
    BY <1>4 DEF Created
  <2> QED
    BY <2>1 DEF RegisteredMeansStored
<1> QED
  BY <1>2, <1>5, <1>6, <1>7

-----------------------------------------------------------------------------
(***************************************************************************)
(* The parts of the invariant that a quiet step must still preserve.       *)
(***************************************************************************)
Rest == TypeOK /\ ShapeInv /\ UploadInv /\ AccountInv /\ SessionInv /\ BadPathMeansOverlap

\* A quiet step that keeps the other parts keeps the whole invariant.
LEMMA QuietPreserves ==
  ASSUME IInv, Quiet, Rest'
  PROVE  IInv'
  BY QuietStep DEF IInv, Rest

\* Launch restores the session and the queues and disturbs nothing.
LEMMA LaunchStep ==
  ASSUME IInv, Launch
  PROVE  IInv'
<1> USE DEF IInv, Launch, backend
<1>1. Quiet
  BY DEF Quiet, Created, IsRegister
<1>2. Rest'
  BY DEF Rest, TypeOK, ShapeInv, CallShape, UploadInv, Uploaded, AccountInv, Agreed,
         SessionInv, InChain, IsRegister, BadPathMeansOverlap
<1> QED
  BY <1>1, <1>2, QuietPreserves

\* Terminate: requests that have left may still be carried out, which only
\* adds accounts and images, and pending calls are lost.
LEMMA TerminateStep ==
  ASSUME IInv, NEW how \in {"killed", "badIndex", "badPath"}, Terminate(how),
         how = "badPath" => overlapped # {}
  PROVE  IInv'
<1> USE DEF IInv, Terminate, Pending, AuthPC, StorePC
<1>1. calls \in [Calls -> Call] /\ calls' \in [Calls -> Call]
  <2>1. calls \in [Calls -> Call]
    BY DEF TypeOK
  <2>2. ASSUME NEW c \in Calls
        PROVE  [calls[c] EXCEPT !.pc = "lost"] \in Call
    BY <2>1 DEF Call
  <2> QED
    BY <2>1, <2>2
<1>2. \A c \in Calls : /\ calls'[c].op = calls[c].op /\ calls'[c].email = calls[c].email
                       /\ calls'[c].result = calls[c].result
                       /\ calls'[c].pc \in {"idle", "done", "lost"}
                       /\ calls'[c].pc \in {calls[c].pc, "lost"}
                       /\ calls[c].pc = "idle" => calls'[c].pc = "idle"
  BY <1>1 DEF Call
<1>3. accounts \subseteq accounts' /\ images \subseteq images'
  OBVIOUS
<1>4. Quiet
  BY <1>2, <1>3 DEF Quiet, Created, IsRegister, Settled
<1>5. TypeOK'
  BY <1>1 DEF TypeOK
<1>6. ShapeInv'
  BY <1>2 DEF ShapeInv, CallShape, IsRegister
<1>7. UploadInv' /\ AccountInv' /\ SessionInv'
  BY <1>2, <1>3 DEF UploadInv, Uploaded, AccountInv, Agreed, SessionInv, InChain, IsRegister
<1>8. BadPathMeansOverlap'
  BY DEF BadPathMeansOverlap
<1> QED
  BY <1>4, <1>5, <1>6, <1>7, <1>8, QuietPreserves DEF Rest

\* performLogin and performRegistration: a new call has made nothing yet.
LEMMA StartStep ==
  ASSUME IInv, NEW c \in Calls, NEW e \in Emails, NEW op \in {"login", "register"},
         Start(c, op, e)
  PROVE  IInv'
<1> USE DEF IInv, Start, backend, Idle
<1>1. calls \in [Calls -> Call] /\ calls' \in [Calls -> Call]
  BY DEF TypeOK, Call, AuthPC
<1>2. /\ calls'[c] = [op |-> op, email |-> e, pc |-> "request", result |-> "none"]
      /\ \A d \in Calls \ {c} : calls'[d] = calls[d]
  BY <1>1
<1>3. Quiet
  BY <1>2 DEF Quiet, Created, IsRegister, Settled, StorePC
<1>4. Rest'
  BY <1>1, <1>2 DEF Rest, TypeOK, ShapeInv, CallShape, UploadInv, Uploaded, AccountInv,
         Agreed, SessionInv, InChain, IsRegister, BadPathMeansOverlap, StorePC
<1> QED
  BY <1>3, <1>4, QuietPreserves

-----------------------------------------------------------------------------
PCs == {"idle", "done", "lost"} \cup AuthPC \cup StorePC

\* A step that only moves the pc of call c.
LEMMA Moved ==
  ASSUME TypeOK, NEW c \in Calls, NEW pc \in PCs, calls' = [calls EXCEPT ![c].pc = pc]
  PROVE  /\ calls' \in [Calls -> Call]
         /\ calls'[c].op = calls[c].op /\ calls'[c].email = calls[c].email
         /\ calls'[c].result = calls[c].result /\ calls'[c].pc = pc
         /\ \A d \in Calls \ {c} : calls'[d] = calls[d]
<1>1. calls \in [Calls -> Call]
  BY DEF TypeOK
<1>2. [calls[c] EXCEPT !.pc = pc] \in Call
  BY <1>1 DEF Call, PCs
<1> QED
  BY <1>1, <1>2 DEF Call

\* A step in which call c reports event to its observer and ends.
LEMMA Finished ==
  ASSUME TypeOK, NEW c \in Calls, NEW event \in {"true", "false", "error"},
         calls[c].result = "none",
         calls' = [calls EXCEPT ![c] = Finish(@, event)]
  PROVE  /\ calls' \in [Calls -> Call]
         /\ calls'[c].op = calls[c].op /\ calls'[c].email = calls[c].email
         /\ calls'[c].result = event /\ calls'[c].pc = "done"
         /\ \A d \in Calls \ {c} : calls'[d] = calls[d]
<1>1. calls \in [Calls -> Call]
  BY DEF TypeOK
<1>2. Finish(calls[c], event) = [calls[c] EXCEPT !.result = event, !.pc = "done"]
  BY <1>1 DEF Finish, Emit, Call
<1>3. [calls[c] EXCEPT !.result = event, !.pc = "done"] \in Call
  BY <1>1 DEF Call
<1> QED
  BY <1>1, <1>2, <1>3 DEF Call

\* signIn is granted to an address that has an account.
LEMMA SignInGrantedStep ==
  ASSUME IInv, NEW c \in Calls, SignInGranted(c)
  PROVE  IInv'
<1> USE DEF IInv, SignInGranted, backend, AuthPC, StorePC
<1>1. /\ calls' \in [Calls -> Call]
      /\ calls'[c].op = calls[c].op /\ calls'[c].email = calls[c].email
      /\ calls'[c].result = calls[c].result /\ calls'[c].pc = "granted"
      /\ \A d \in Calls \ {c} : calls'[d] = calls[d]
  BY Moved DEF PCs
<1>2. Quiet
  BY <1>1 DEF Quiet, Created, IsRegister, Settled
<1>3. Rest'
  BY <1>1 DEF Rest, TypeOK, ShapeInv, CallShape, UploadInv, Uploaded, AccountInv,
         Agreed, SessionInv, InChain, IsRegister, BadPathMeansOverlap
<1> QED
  BY <1>2, <1>3, QuietPreserves

\* An error answer of Firebase Auth changes no store.
LEMMA AuthRefusedStep ==
  ASSUME IInv, NEW c \in Calls, AuthRefused(c)
  PROVE  IInv'
<1> USE DEF IInv, AuthRefused, backend, AuthPC, StorePC
<1>1. /\ calls' \in [Calls -> Call]
      /\ calls'[c].op = calls[c].op /\ calls'[c].email = calls[c].email
      /\ calls'[c].result = calls[c].result /\ calls'[c].pc = "refused"
      /\ \A d \in Calls \ {c} : calls'[d] = calls[d]
  BY Moved DEF PCs
<1>2. Quiet
  BY <1>1 DEF Quiet, Created, IsRegister, Settled
<1>3. Rest'
  BY <1>1 DEF Rest, TypeOK, ShapeInv, CallShape, UploadInv, Uploaded, AccountInv,
         Agreed, SessionInv, InChain, IsRegister, BadPathMeansOverlap
<1> QED
  BY <1>2, <1>3, QuietPreserves

\* updateCurrentUser records every registration whose session it replaces.
LEMMA UpdateCurrentUserStep ==
  ASSUME IInv, NEW c \in Calls, updateCurrentUser(c)
  PROVE  IInv'
<1> USE DEF IInv, updateCurrentUser, backend, AuthPC, StorePC
<1>1. /\ calls' \in [Calls -> Call]
      /\ calls'[c].op = calls[c].op /\ calls'[c].email = calls[c].email
      /\ calls'[c].result = calls[c].result /\ calls'[c].pc = "session"
      /\ \A d \in Calls \ {c} : calls'[d] = calls[d]
  BY Moved DEF PCs
<1>2. calls[c].email \in Emails
  BY DEF ShapeInv, CallShape
<1>3. Quiet
  BY <1>1 DEF Quiet, Created, IsRegister, Settled, Overlap
<1>4. TypeOK'
  BY <1>1, <1>2 DEF TypeOK, Overlap
<1>5. ShapeInv' /\ UploadInv' /\ AccountInv' /\ BadPathMeansOverlap'
  BY <1>1, <1>2 DEF ShapeInv, CallShape, UploadInv, Uploaded, AccountInv, Agreed,
         IsRegister, BadPathMeansOverlap, Overlap
<1>6. SessionInv'
  <2> SUFFICES ASSUME NEW d \in Calls, InChain(d)', d \notin overlapped'
               PROVE  calls'[d].email = calls[c].email
    BY DEF SessionInv
  <2>1. CASE d = c
    BY <1>1, <2>1
  <2>2. CASE d # c
    BY <1>1, <2>2 DEF InChain, IsRegister, Overlap
  <2> QED
    BY <2>1, <2>2
<1> QED
  BY <1>3, <1>4, <1>5, <1>6, QuietPreserves DEF Rest

\* signIn's callback reports true only of the session it made.
LEMMA LoginCallbackStep ==
  ASSUME IInv, NEW c \in Calls, LoginCallback(c)
  PROVE  IInv'
<1> USE DEF IInv, AuthPC, StorePC
<1> DEFINE event == IF calls[c].pc = "refused" THEN "error" ELSE "true"
<1>1. calls[c].result = "none"
  BY DEF LoginCallback, ShapeInv, CallShape
<1>2. calls' = [calls EXCEPT ![c] = Finish(@, event)]
  <2>1. calls[c] \in Call
    BY DEF TypeOK
  <2>2. Finish(Emit(calls[c], "error"), "true") = Finish(calls[c], "error")
    BY <1>1, <2>1 DEF Finish, Emit, Call
  <2> QED
    BY <2>2 DEF LoginCallback
<1>3. /\ calls' \in [Calls -> Call]
      /\ calls'[c].op = calls[c].op /\ calls'[c].email = calls[c].email
      /\ calls'[c].result = event /\ calls'[c].pc = "done"
      /\ \A d \in Calls \ {c} : calls'[d] = calls[d]
  BY <1>1, <1>2, Finished
<1>4. Quiet
  BY <1>3 DEF LoginCallback, backend, Quiet, Created, IsRegister, Settled
<1>5. Rest'
  BY <1>3 DEF LoginCallback, backend, Rest, TypeOK, ShapeInv, CallShape, UploadInv, Uploaded,
         AccountInv, Agreed, SessionInv, InChain, IsRegister, BadPathMeansOverlap
<1> QED
  BY <1>4, <1>5, QuietPreserves

\* createUser's callback reports false or goes on to the upload.
LEMMA CreateUserCallbackStep ==
  ASSUME IInv, NEW c \in Calls, CreateUserCallback(c)
  PROVE  IInv'
<1> USE DEF IInv, AuthPC, StorePC
<1>1. calls[c].result = "none"
  BY DEF CreateUserCallback, ShapeInv, CallShape
<1>2. CASE calls[c].pc = "refused"
  <2>1. calls' = [calls EXCEPT ![c] = Finish(@, "false")]
    BY <1>2 DEF CreateUserCallback
  <2>2. /\ calls' \in [Calls -> Call]
        /\ calls'[c].op = calls[c].op /\ calls'[c].email = calls[c].email
        /\ calls'[c].result = "false" /\ calls'[c].pc = "done"
        /\ \A d \in Calls \ {c} : calls'[d] = calls[d]
    BY <1>1, <2>1, Finished
  <2>3. Quiet
    BY <1>2, <2>2 DEF CreateUserCallback, backend, Quiet, Created, IsRegister, Settled
  <2>4. Rest'
    BY <1>2, <2>2 DEF CreateUserCallback, backend, Rest, TypeOK, ShapeInv, CallShape,
         UploadInv, Uploaded, AccountInv, Agreed, SessionInv, InChain, IsRegister,
         BadPathMeansOverlap
  <2> QED
    BY <2>3, <2>4, QuietPreserves
<1>3. CASE calls[c].pc = "session"
  <2>1. calls' = [calls EXCEPT ![c].pc = "putData"]
    BY <1>3 DEF CreateUserCallback
  <2>2. /\ calls' \in [Calls -> Call]
        /\ calls'[c].op = calls[c].op /\ calls'[c].email = calls[c].email
        /\ calls'[c].result = calls[c].result /\ calls'[c].pc = "putData"
        /\ \A d \in Calls \ {c} : calls'[d] = calls[d]
    BY <2>1, Moved DEF PCs
  <2>3. Quiet
    BY <1>3, <2>2 DEF CreateUserCallback, backend, Quiet, Created, IsRegister, Settled
  <2>4. Rest'
    BY <1>3, <2>2 DEF CreateUserCallback, backend, Rest, TypeOK, ShapeInv, CallShape,
         UploadInv, Uploaded, AccountInv, Agreed, SessionInv, InChain, IsRegister,
         BadPathMeansOverlap
  <2> QED
    BY <2>3, <2>4, QuietPreserves
<1> QED
  BY <1>2, <1>3 DEF CreateUserCallback

\* doLogout records every registration that it signs out.
LEMMA LogoutStep ==
  ASSUME IInv, doLogout
  PROVE  IInv'
<1> USE DEF IInv, doLogout, backend, Overlap
<1>1. Quiet
  BY DEF Quiet, Created, IsRegister
<1>2. SessionInv'
  BY NoneAssumption DEF SessionInv, InChain, IsRegister, ShapeInv, CallShape
<1>3. Rest'
  BY <1>2 DEF Rest, TypeOK, ShapeInv, CallShape, UploadInv, Uploaded, AccountInv,
         Agreed, IsRegister, BadPathMeansOverlap
<1> QED
  BY <1>1, <1>3, QuietPreserves

\* putData adds the image of the call that goes on to downloadURL.
LEMMA ImageStoredStep ==
  ASSUME IInv, NEW c \in Calls, ImageStored(c)
  PROVE  IInv'
<1> USE DEF IInv, ImageStored, AuthPC, StorePC
<1>1. /\ calls' \in [Calls -> Call]
      /\ calls'[c].op = calls[c].op /\ calls'[c].email = calls[c].email
      /\ calls'[c].result = calls[c].result /\ calls'[c].pc = "downloadURL"
      /\ \A d \in Calls \ {c} : calls'[d] = calls[d]
  BY Moved DEF PCs
<1>2. Quiet
  BY <1>1 DEF Quiet, Created, IsRegister, Settled
<1>3. Rest'
  BY <1>1 DEF Rest, TypeOK, ShapeInv, CallShape, UploadInv, Uploaded, AccountInv,
         Agreed, SessionInv, InChain, IsRegister, BadPathMeansOverlap
<1> QED
  BY <1>2, <1>3, QuietPreserves

\* A storage error ends the call with false.
LEMMA StorageFailedStep ==
  ASSUME IInv, NEW c \in Calls, StorageFailed(c)
  PROVE  IInv'
<1> USE DEF IInv, StorageFailed, AuthPC, StorePC
<1>1. calls[c].result = "none" /\ IsRegister(c)
  BY DEF ShapeInv, CallShape
<1>2. /\ calls' \in [Calls -> Call]
      /\ calls'[c].op = calls[c].op /\ calls'[c].email = calls[c].email
      /\ calls'[c].result = "false" /\ calls'[c].pc = "done"
      /\ \A d \in Calls \ {c} : calls'[d] = calls[d]
  BY <1>1, Finished
<1>3. images \subseteq images' /\ images' \subseteq Calls
  BY DEF TypeOK
<1>4. Quiet
  BY <1>1, <1>2, <1>3 DEF Quiet, Created, IsRegister, Settled
<1>5. Rest'
  BY <1>1, <1>2, <1>3 DEF Rest, TypeOK, ShapeInv, CallShape, UploadInv, Uploaded,
         AccountInv, Agreed, SessionInv, InChain, IsRegister, BadPathMeansOverlap
<1> QED
  BY <1>4, <1>5, QuietPreserves

\* document("") aborts only a registration that lost its session.
LEMMA SaveInfoToNobodyStep ==
  ASSUME IInv, NEW c \in Calls, saveInfoToNobody(c)
  PROVE  IInv'
<1>1. c \in overlapped
  BY NoneAssumption DEF IInv, saveInfoToNobody, SessionInv, InChain, ShapeInv, CallShape, StorePC
<1> QED
  BY <1>1, TerminateStep DEF saveInfoToNobody

-----------------------------------------------------------------------------
(***************************************************************************)
(* The steps that are not quiet.                                           *)
(***************************************************************************)

\* createUser: the address had no account, so no call got past createUser
\* with it and no document names it.
LEMMA AccountCreatedStep ==
  ASSUME IInv, NEW c \in Calls, AccountCreated(c)
  PROVE  IInv'
<1> USE DEF IInv, AccountCreated, AuthPC, StorePC
<1>1. /\ calls' \in [Calls -> Call]
      /\ calls'[c].op = calls[c].op /\ calls'[c].email = calls[c].email
      /\ calls'[c].result = calls[c].result /\ calls'[c].pc = "granted"
      /\ \A d \in Calls \ {c} : calls'[d] = calls[d]
  BY Moved DEF PCs
<1>2. calls[c].email \in Emails /\ calls[c].result = "none"
  BY DEF ShapeInv, CallShape
<1>3. \A e : Written(e)' = Written(e)
  BY WrittenSame
<1>4. Rest'
  BY <1>1, <1>2 DEF Rest, TypeOK, ShapeInv, CallShape, UploadInv, Uploaded, AccountInv,
         Agreed, SessionInv, InChain, IsRegister, BadPathMeansOverlap
<1>5. DocInv'
  <2> SUFFICES ASSUME NEW e \in Emails, NEW doc \in Written(e)
               PROVE  /\ doc \in Doc
                      /\ doc.uid = e /\ e \in accounts'
                      /\ doc.profileImageURL \in images
                      /\ IsRegister(doc.profileImageURL)'
                      /\ calls'[doc.profileImageURL].pc \in {"setData", "done", "lost"}
                      /\ calls'[doc.profileImageURL].email = doc.email
                      /\ doc.email \in accounts'
    BY <1>3 DEF DocInv
  <2>1. doc.profileImageURL \in Calls \ {c}
    BY DEF DocInv, Doc
  <2> QED
    BY <1>1, <2>1 DEF DocInv, IsRegister
<1>6. OwnerInv'
  <2>1. \A d \in Calls : Author(d)' = Author(d)
    BY <1>3 DEF Author
  <2>2. \A d \in Calls : Created(d) \/ Author(d) => calls[d].email \in accounts
    BY DEF Created, Author, AccountInv, Agreed, DocInv
  <2>3. \A d \in Calls \ {c} : Created(d)' = Created(d)
    BY <1>1 DEF Created, IsRegister
  <2> QED
    BY <1>1, <2>1, <2>2, <2>3 DEF OwnerInv
<1>7. OwnProfile'
  BY <1>3 DEF OwnProfile
<1>8. RegisteredMeansStored'
  BY <1>1, <1>2 DEF RegisteredMeansStored, IsRegister
<1> QED
  BY <1>4, <1>5, <1>6, <1>7, <1>8 DEF Rest

\* setData: a registration that was not overlapped writes its own document.
LEMMA SaveInfoStep ==
  ASSUME IInv, NEW c \in Calls, saveInfoToFirestore(c)
  PROVE  IInv'
<1> USE DEF IInv, saveInfoToFirestore, AuthPC, StorePC
<1> DEFINE new == [profileImageURL |-> c, email |-> calls[c].email, uid |-> currentUser]
<1>1. /\ calls' \in [Calls -> Call]
      /\ calls'[c].op = calls[c].op /\ calls'[c].email = calls[c].email
      /\ calls'[c].result = calls[c].result /\ calls'[c].pc = "setData"
      /\ \A d \in Calls \ {c} : calls'[d] = calls[d]
  BY Moved DEF PCs
<1>2. /\ IsRegister(c) /\ calls[c].result = "none" /\ calls[c].email \in Emails
      /\ currentUser \in Emails
      /\ calls[c].email \in accounts /\ currentUser \in accounts /\ c \in images
  BY DEF ShapeInv, CallShape, TypeOK, AccountInv, Agreed, UploadInv, Uploaded
<1>3. new \in Doc
  BY <1>2 DEF Doc
<1>4. mutationQueue' \in [Emails -> Seq(Doc)]
  BY <1>2, <1>3 DEF TypeOK
<1>5. \A e \in Emails : \A doc \in Written(e)' :
        doc \in Written(e) \/ (e = currentUser /\ doc = new)
  <2> SUFFICES ASSUME NEW e \in Emails, NEW doc \in Queued(e)'
               PROVE  doc \in Queued(e) \/ (e = currentUser /\ doc = new)
    BY DEF Written
  <2>1. mutationQueue[e] \in Seq(Doc)
    BY DEF TypeOK
  <2>2. CASE e = currentUser
    <3>1. mutationQueue'[e] = Append(mutationQueue[e], new)
      BY <2>2 DEF TypeOK
    <3> QED
      BY <1>3, <2>1, <2>2, <3>1, AppendRange DEF Queued
  <2>3. CASE e # currentUser
    BY <2>3 DEF Queued, TypeOK
  <2> QED
    BY <2>2, <2>3
<1>6. Rest'
  BY <1>1, <1>2, <1>4 DEF Rest, TypeOK, ShapeInv, CallShape, UploadInv, Uploaded, AccountInv,
         Agreed, SessionInv, InChain, IsRegister, BadPathMeansOverlap
<1>7. DocInv'
  <2> SUFFICES ASSUME NEW e \in Emails, NEW doc \in Written(e)'
               PROVE  /\ doc \in Doc
                      /\ doc.uid = e /\ e \in accounts
                      /\ doc.profileImageURL \in images
                      /\ IsRegister(doc.profileImageURL)'
                      /\ calls'[doc.profileImageURL].pc \in {"setData", "done", "lost"}
                      /\ calls'[doc.profileImageURL].email = doc.email
                      /\ doc.email \in accounts
    BY DEF DocInv
  <2>1. CASE doc \in Written(e)
    <3>1. doc.profileImageURL \in Calls \ {c}
      BY <2>1 DEF DocInv, Doc
    <3> QED
      BY <1>1, <2>1, <3>1 DEF DocInv, IsRegister
  <2>2. CASE e = currentUser /\ doc = new
    BY <1>1, <1>2, <1>3, <2>2 DEF IsRegister
  <2> QED
    BY <1>5, <2>1, <2>2
<1>8. OwnerInv'
  <2>1. \A d \in Calls : Author(d)' => Author(d) \/ d = c
    BY <1>5 DEF Author
  <2>2. \A d \in Calls : Created(d)' => Created(d)
    BY <1>1, <1>2 DEF Created, IsRegister
  <2>3. Created(c)
    BY <1>2 DEF Created
  <2>4. \A d \in Calls : calls'[d].email = calls[d].email
    BY <1>1
  <2> QED
    BY <2>1, <2>2, <2>3, <2>4 DEF OwnerInv
<1>9. OwnProfile'
  <2>1. c \notin overlapped => calls[c].email = currentUser
    BY <1>2 DEF SessionInv, InChain
  <2> QED
    BY <1>5, <2>1 DEF OwnProfile
<1>10. RegisteredMeansStored'
  BY <1>1, <1>2 DEF RegisteredMeansStored, IsRegister
<1> QED
  BY <1>6, <1>7, <1>8, <1>9, <1>10 DEF Rest

(***************************************************************************)
(* An answer from Firestore: the head of the signed-in user's queue is     *)
(* stored or dropped, and the call that wrote it, if it still waits, ends. *)
(***************************************************************************)
Oldest == Head(mutationQueue[currentUser])

\* The oldest queued write is a document of the user that is signed in.
LEMMA OldestDoc ==
  ASSUME IInv, currentUser # None, mutationQueue[currentUser] # <<>>
  PROVE  /\ currentUser \in Emails
         /\ Oldest \in Doc /\ Oldest \in Written(currentUser)
         /\ Oldest.profileImageURL \in Calls
<1>1. currentUser \in Emails /\ mutationQueue[currentUser] \in Seq(Doc)
  BY DEF IInv, TypeOK
<1> QED
  BY <1>1, TailRange DEF Oldest, Written, Queued, Doc

\* What an answer does to the calls.
LEMMA AnswerCalls ==
  ASSUME IInv, NEW event \in {"true", "false"}, WriteAnswered(event),
         NEW c, c = Oldest.profileImageURL
  PROVE  /\ c \in Calls /\ IsRegister(c)
         /\ calls' \in [Calls -> Call]
         /\ calls'[c].op = calls[c].op /\ calls'[c].email = calls[c].email
         /\ \/ calls[c].pc = "setData" /\ calls'[c].pc = "done" /\ calls'[c].result = event
            \/ calls[c].pc # "setData" /\ calls'[c] = calls[c]
         /\ \A d \in Calls \ {c} : calls'[d] = calls[d]
<1> USE DEF IInv
<1>1. currentUser # None /\ mutationQueue[currentUser] # <<>>
  BY DEF WriteAnswered
<1>2. c \in Calls /\ IsRegister(c)
  BY <1>1, OldestDoc DEF DocInv
<1>3. calls' = [calls EXCEPT ![c] = IF @.pc = "setData" THEN Finish(@, event) ELSE @]
  BY DEF WriteAnswered, Oldest
<1>4. CASE calls[c].pc = "setData"
  <2>1. calls' = [calls EXCEPT ![c] = Finish(@, event)]
    BY <1>3, <1>4
  <2>2. calls[c].result = "none"
    BY <1>2, <1>4 DEF ShapeInv, CallShape
  <2> QED
    BY <1>2, <1>4, <2>1, <2>2, Finished
<1>5. CASE calls[c].pc # "setData"
  BY <1>2, <1>3, <1>5 DEF TypeOK
<1> QED
  BY <1>4, <1>5

\* What an answer does to the documents.
LEMMA AnswerDocs ==
  ASSUME IInv, WriteAcknowledged \/ WriteRejected
  PROVE  /\ mutationQueue' \in [Emails -> Seq(Doc)]
         /\ users' \in [Emails -> Doc \cup {None}]
         /\ \A e \in Emails : Written(e)' \subseteq Written(e)
<1> USE DEF IInv, WriteAcknowledged, WriteRejected, WriteAnswered
<1>1. /\ currentUser \in Emails /\ Oldest \in Doc /\ Oldest \in Written(currentUser)
      /\ mutationQueue[currentUser] \in Seq(Doc) /\ mutationQueue[currentUser] # <<>>
  BY OldestDoc DEF TypeOK
<1>2. mutationQueue' \in [Emails -> Seq(Doc)]
  BY <1>1, TailRange DEF TypeOK
<1>3. users' \in [Emails -> Doc \cup {None}]
  BY <1>1 DEF TypeOK, Oldest
<1>4. ASSUME NEW e \in Emails
      PROVE  Queued(e)' \subseteq Queued(e)
  <2>1. CASE e = currentUser
    <3>1. mutationQueue'[e] = Tail(mutationQueue[e])
      BY <2>1 DEF TypeOK
    <3> QED
      BY <1>1, <2>1, <3>1, TailRange DEF Queued
  <2>2. CASE e # currentUser
    BY <2>2 DEF Queued, TypeOK
  <2> QED
    BY <2>1, <2>2
<1>5. ASSUME NEW e \in Emails
      PROVE  users'[e] = users[e] \/ (e = currentUser /\ users'[e] = Oldest)
  BY <1>1 DEF TypeOK, Oldest
<1> QED
  BY <1>1, <1>2, <1>3, <1>4, <1>5 DEF Written

\* What either answer preserves.
LEMMA AnswerPreserves ==
  ASSUME IInv, WriteAcknowledged \/ WriteRejected
  PROVE  Rest' /\ DocInv' /\ OwnerInv' /\ OwnProfile'
<1> USE DEF IInv, AuthPC, StorePC
<1> DEFINE c == Oldest.profileImageURL
<1>1. PICK event \in {"true", "false"} : WriteAnswered(event)
  BY DEF WriteAcknowledged, WriteRejected
<1>2. /\ c \in Calls /\ IsRegister(c)
      /\ calls' \in [Calls -> Call]
      /\ calls'[c].op = calls[c].op /\ calls'[c].email = calls[c].email
      /\ \/ calls[c].pc = "setData" /\ calls'[c].pc = "done" /\ calls'[c].result = event
         \/ calls[c].pc # "setData" /\ calls'[c] = calls[c]
      /\ \A d \in Calls \ {c} : calls'[d] = calls[d]
  BY <1>1, AnswerCalls
<1>3. /\ mutationQueue' \in [Emails -> Seq(Doc)]
      /\ users' \in [Emails -> Doc \cup {None}]
      /\ \A e \in Emails : Written(e)' \subseteq Written(e)
  BY AnswerDocs
<1>4. UNCHANGED <<process, accounts, currentUser, images, overlapped>>
  BY <1>1 DEF WriteAnswered
<1> HIDE DEF c
<1>5. Rest'
  <2>1. TypeOK'
    BY <1>2, <1>3, <1>4 DEF TypeOK
  <2>2. ShapeInv'
    BY <1>1, <1>2 DEF ShapeInv, CallShape, IsRegister
  <2>3. UploadInv' /\ AccountInv'
    BY <1>1, <1>2, <1>4 DEF UploadInv, Uploaded, AccountInv, Agreed, IsRegister
  <2>4. SessionInv' /\ BadPathMeansOverlap'
    BY <1>2, <1>4 DEF SessionInv, InChain, IsRegister, BadPathMeansOverlap
  <2> QED
    BY <2>1, <2>2, <2>3, <2>4 DEF Rest
<1>6. DocInv'
  <2> SUFFICES ASSUME NEW e \in Emails, NEW doc \in Written(e)'
               PROVE  /\ doc \in Doc
                      /\ doc.uid = e /\ e \in accounts
                      /\ doc.profileImageURL \in images
                      /\ IsRegister(doc.profileImageURL)'
                      /\ calls'[doc.profileImageURL].pc \in {"setData", "done", "lost"}
                      /\ calls'[doc.profileImageURL].email = doc.email
                      /\ doc.email \in accounts
    BY <1>4 DEF DocInv
  <2>1. doc \in Written(e) /\ doc.profileImageURL \in Calls
    BY <1>3 DEF DocInv, Doc
  <2> QED
    BY <1>2, <2>1 DEF DocInv, IsRegister
<1>7. OwnerInv'
  <2>1. \A d \in Calls : Author(d)' => Author(d)
    BY <1>3 DEF Author
  <2>2. \A d \in Calls : Created(d)' => Created(d)
    BY <1>2 DEF Created, IsRegister
  <2>3. \A d \in Calls : calls'[d].email = calls[d].email
    BY <1>2
  <2> QED
    BY <2>1, <2>2, <2>3 DEF OwnerInv
<1>8. OwnProfile'
  BY <1>3, <1>4 DEF OwnProfile
<1> QED
  BY <1>5, <1>6, <1>7, <1>8

\* An acknowledged write becomes the stored document of the signed-in user.
LEMMA WriteAcknowledgedStep ==
  ASSUME IInv, WriteAcknowledged
  PROVE  IInv'
<1> USE DEF IInv, StorePC
<1> DEFINE c == Oldest.profileImageURL
<1>1. Rest' /\ DocInv' /\ OwnerInv' /\ OwnProfile'
  BY AnswerPreserves
<1>2. /\ c \in Calls /\ IsRegister(c)
      /\ calls'[c].op = calls[c].op /\ calls'[c].email = calls[c].email
      /\ \/ calls[c].pc = "setData" /\ calls'[c].pc = "done" /\ calls'[c].result = "true"
         \/ calls[c].pc # "setData" /\ calls'[c] = calls[c]
      /\ \A d \in Calls \ {c} : calls'[d] = calls[d]
  BY AnswerCalls DEF WriteAcknowledged
<1>3. UNCHANGED <<accounts, images, overlapped>>
  BY DEF WriteAcknowledged, WriteAnswered
<1>4. currentUser \in Emails /\ Oldest \in Doc /\ Oldest \in Written(currentUser)
  BY OldestDoc DEF WriteAcknowledged, WriteAnswered
<1>5. /\ users'[currentUser] = Oldest
      /\ \A e \in Emails \ {currentUser} : users'[e] = users[e]
  BY <1>4 DEF WriteAcknowledged, TypeOK, Oldest
<1>6. /\ calls[c].email = Oldest.email
      /\ c \notin overlapped => Oldest.email = currentUser
      /\ Author(c)
  BY <1>4 DEF DocInv, OwnProfile, Author
<1>7. Oldest # None
  BY <1>4, NoneAssumption
<1>8. RegisteredMeansStored'
  <2> SUFFICES ASSUME NEW d \in Calls, IsRegister(d)', calls'[d].result = "true"
               PROVE  /\ calls[d].email \in accounts
                      /\ d \in images
                      /\ d \notin overlapped =>
                           /\ users'[calls[d].email] # None
                           /\ users'[calls[d].email].profileImageURL \in {d} \cup overlapped
    BY <1>2, <1>3 DEF RegisteredMeansStored
  <2>1. CASE d = c
    <3>1. Agreed(c) /\ Uploaded(c)
      BY <1>2, <2>1 DEF Agreed, Uploaded
    <3>2. calls[c].email \in accounts /\ c \in images
      BY <1>2, <3>1 DEF AccountInv, UploadInv
    <3>3. c \notin overlapped => users'[calls[c].email] = Oldest
      BY <1>5, <1>6
    <3> QED
      BY <1>7, <2>1, <3>2, <3>3
  <2>2. CASE d # c
    <3>1. calls'[d] = calls[d]
      BY <1>2, <2>2
    <3>2. IsRegister(d) /\ calls[d].result = "true"
      BY <3>1 DEF IsRegister
    <3>3. /\ calls[d].email \in accounts /\ d \in images
          /\ d \notin overlapped =>
               /\ users[calls[d].email] # None
               /\ users[calls[d].email].profileImageURL \in {d} \cup overlapped
      BY <3>2 DEF RegisteredMeansStored
    <3>4. calls[d].email \in Emails
      BY <3>3 DEF TypeOK
    <3>5. CASE calls[d].email # currentUser
      BY <1>5, <3>3, <3>4, <3>5
    <3>6. CASE calls[d].email = currentUser
      <4>1. Created(d)
        BY <3>2 DEF Created
      <4>2. c \in overlapped
        BY <1>2, <1>6, <2>2, <3>6, <4>1 DEF OwnerInv
      <4> QED
        BY <1>5, <1>7, <3>3, <3>6, <4>2
    <3> QED
      BY <3>5, <3>6
  <2> QED
    BY <2>1, <2>2
<1> QED
  BY <1>1, <1>8 DEF Rest

\* A rejected write is dropped and its call reports false.
LEMMA WriteRejectedStep ==
  ASSUME IInv, WriteRejected
  PROVE  IInv'
<1> USE DEF IInv
<1> DEFINE c == Oldest.profileImageURL
<1>1. Rest' /\ DocInv' /\ OwnerInv' /\ OwnProfile'
  BY AnswerPreserves
<1>2. /\ c \in Calls
      /\ calls'[c].op = calls[c].op /\ calls'[c].email = calls[c].email
      /\ \/ calls[c].pc = "setData" /\ calls'[c].pc = "done" /\ calls'[c].result = "false"
         \/ calls[c].pc # "setData" /\ calls'[c] = calls[c]
      /\ \A d \in Calls \ {c} : calls'[d] = calls[d]
  BY AnswerCalls DEF WriteRejected
<1>3. UNCHANGED <<accounts, images, overlapped, users>>
  BY DEF WriteRejected, WriteAnswered
<1>4. RegisteredMeansStored'
  BY <1>2, <1>3 DEF RegisteredMeansStored, IsRegister
<1> QED
  BY <1>1, <1>4 DEF Rest
-----------------------------------------------------------------------------
(***************************************************************************)
(* The invariant holds initially and is preserved by every step.           *)
(***************************************************************************)
\* The invariant holds initially.
LEMMA InitInv ==
  ASSUME Init
  PROVE  IInv
<1> USE DEF Init
<1>1. \A e \in Emails : Written(e) = {}
  BY DEF Written, Queued
<1>2. TypeOK
  BY DEF TypeOK, Call, AuthPC, StorePC
<1>3. ShapeInv /\ UploadInv /\ AccountInv /\ SessionInv /\ BadPathMeansOverlap
  BY DEF ShapeInv, CallShape, UploadInv, Uploaded, AccountInv, Agreed, SessionInv,
         InChain, IsRegister, StorePC, BadPathMeansOverlap
<1>4. DocInv /\ OwnProfile
  BY <1>1 DEF DocInv, OwnProfile
<1>5. OwnerInv /\ RegisteredMeansStored
  BY <1>1 DEF OwnerInv, Created, Author, IsRegister, RegisteredMeansStored
<1> QED
  BY <1>2, <1>3, <1>4, <1>5 DEF IInv

\* Every step preserves the invariant.
LEMMA NextInv ==
  ASSUME IInv, [Next]_vars
  PROVE  IInv'
<1>1. CASE Launch
  BY <1>1, LaunchStep
<1>2. CASE \E how \in {"killed", "badIndex"} : Terminate(how)
  BY <1>2, TerminateStep
<1>3. CASE \E c \in Calls, e \in Emails : performLogin(c, e) \/ performRegistration(c, e)
  BY <1>3, StartStep DEF performLogin, performRegistration
<1>4. CASE \E c \in Calls : Progress(c)
  <2> SUFFICES ASSUME NEW c \in Calls, Progress(c)
               PROVE  IInv'
    BY <1>4
  <2>1. CASE AuthAnswer(c)
    BY <2>1, SignInGrantedStep, AccountCreatedStep, AuthRefusedStep DEF AuthAnswer
  <2>2. CASE updateCurrentUser(c)
    BY <2>2, UpdateCurrentUserStep
  <2>3. CASE AuthCallback(c)
    BY <2>3, LoginCallbackStep, CreateUserCallbackStep DEF AuthCallback
  <2>4. CASE StorageAnswer(c)
    BY <2>4, ImageStoredStep, StorageFailedStep, SaveInfoStep, SaveInfoToNobodyStep
       DEF StorageAnswer
  <2> QED
    BY <2>1, <2>2, <2>3, <2>4 DEF Progress
<1>5. CASE doLogout
  BY <1>5, LogoutStep
<1>6. CASE WriteAcknowledged
  BY <1>6, WriteAcknowledgedStep
<1>7. CASE WriteRejected
  BY <1>7, WriteRejectedStep
<1>8. CASE UNCHANGED vars
  <2>1. Quiet
    BY <1>8 DEF vars, Quiet, Created, IsRegister
  <2>2. Rest'
    BY <1>8 DEF IInv, vars, Rest, TypeOK, ShapeInv, CallShape, UploadInv, Uploaded,
       AccountInv, Agreed, SessionInv, InChain, IsRegister, BadPathMeansOverlap
  <2> QED
    BY <2>1, <2>2, QuietPreserves
<1> QED
  BY <1>1, <1>2, <1>3, <1>4, <1>5, <1>6, <1>7, <1>8 DEF Next

\* The inductive invariant holds in every reachable state.
THEOREM Inductive == Spec => []IInv
<1>1. Init => IInv
  BY InitInv
<1>2. IInv /\ [Next]_vars => IInv'
  BY NextInv
<1> QED
  BY <1>1, <1>2, PTL DEF Spec

(***************************************************************************)
(* Every variable keeps its type: in particular each profile document that *)
(* saveInfoToFirestore queues has an address and a uid that are real.      *)
(***************************************************************************)
THEOREM TypeCorrect == Spec => []TypeOK
<1>1. IInv => TypeOK
  BY DEF IInv
<1> QED
  BY <1>1, Inductive, PTL

(***************************************************************************)
(* Stored or queued documents, images and accounts agree, through failed,  *)
(* lost, repeated and interrupted registrations, and at most one           *)
(* registration of an address gets past createUser.                        *)
(***************************************************************************)
THEOREM StoresAreConsistent == Spec => []Consistent
<1>1. IInv => StoresAgree
  BY DEF IInv, DocInv, StoresAgree
<1>2. IInv => OneChainPerAccount
  BY DEF IInv, OwnerInv, OneChainPerAccount
<1>3. IInv => Consistent
  BY <1>1, <1>2 DEF Consistent
<1> QED
  BY <1>3, Inductive, PTL

(***************************************************************************)
(* A registration whose session is not replaced between createUser and     *)
(* setData never writes under another user's uid, and document("") is      *)
(* reached only by a registration that was signed out.                     *)
(***************************************************************************)
THEOREM SessionsAreSafe == Spec => []SafeSession
<1>1. IInv => SafeSession
  BY DEF IInv, SafeSession
<1> QED
  BY <1>1, Inductive, PTL

(***************************************************************************)
(* performRegistration reports true only of a registration whose account,  *)
(* image and profile document are stored, and performLogin only of an      *)
(* address that has an account.                                            *)
(***************************************************************************)
THEOREM SuccessIsTrue == Spec => []TrueIsTrue
<1>1. IInv => LoginMeansAccount
  BY DEF IInv, AccountInv, Agreed, LoginMeansAccount
<1>2. IInv => TrueIsTrue
  BY <1>1 DEF IInv, TrueIsTrue
<1> QED
  BY <1>2, Inductive, PTL

\* No step touches a call that is done.
LEMMA DoneStays ==
  ASSUME IInv, Next, NEW d \in Calls, calls[d].pc = "done"
  PROVE  calls'[d] = calls[d]
<1>1. calls \in [Calls -> Call]
  BY DEF IInv, TypeOK
<1>2. \A how : Terminate(how) => calls'[d] = calls[d]
  BY DEF Terminate, Pending, AuthPC, StorePC
<1>3. CASE Launch \/ doLogout \/ \E how \in {"killed", "badIndex"} : Terminate(how)
  BY <1>2, <1>3 DEF Launch, doLogout
<1>4. CASE \E c \in Calls, e \in Emails : performLogin(c, e) \/ performRegistration(c, e)
  BY <1>1, <1>4 DEF performLogin, performRegistration, Start, Idle
<1>5. CASE \E c \in Calls : Progress(c)
  <2> SUFFICES ASSUME NEW c \in Calls, Progress(c)
               PROVE  calls'[d] = calls[d]
    BY <1>5
  <2>1. CASE AuthAnswer(c) \/ updateCurrentUser(c)
    BY <1>1, <2>1 DEF AuthAnswer, SignInGranted, AccountCreated, AuthRefused, updateCurrentUser
  <2>2. CASE AuthCallback(c)
    BY <1>1, <2>2 DEF AuthCallback, LoginCallback, CreateUserCallback
  <2>3. CASE StorageAnswer(c)
    BY <1>1, <1>2, <2>3
       DEF StorageAnswer, ImageStored, StorageFailed, saveInfoToFirestore, saveInfoToNobody
  <2> QED
    BY <2>1, <2>2, <2>3 DEF Progress
<1>6. CASE WriteAcknowledged \/ WriteRejected
  <2>1. PICK event \in {"true", "false"} : WriteAnswered(event)
    BY <1>6 DEF WriteAcknowledged, WriteRejected
  <2> QED
    BY <2>1, AnswerCalls
<1> QED
  BY <1>3, <1>4, <1>5, <1>6 DEF Next

(***************************************************************************)
(* What a call has told its observer stays what it was told: onNext is not *)
(* called a second time, by whatever path a late answer comes.             *)
(***************************************************************************)
THEOREM OutcomesAreFinal == Spec => OneOutcome
<1>1. IInv /\ [Next]_vars =>
        [\A c \in Calls : calls[c].result # "none" => calls'[c].result = calls[c].result]_vars
  <2> SUFFICES ASSUME IInv, Next, NEW c \in Calls, calls[c].result # "none"
               PROVE  calls'[c].result = calls[c].result
    OBVIOUS
  <2>1. calls[c].pc = "done"
    BY DEF IInv, ShapeInv, CallShape
  <2> QED
    BY <2>1, DoneStays
<1> QED
  BY <1>1, Inductive, PTL DEF Spec, OneOutcome
-----------------------------------------------------------------------------
(***************************************************************************)
(* The queued writes are of different calls.                               *)
(***************************************************************************)

\* The call that queued the i-th write of the user e.
Writer(e, i) == mutationQueue[e][i].profileImageURL

(***************************************************************************)
(* A call has at most one write in all the queues, and while it is there   *)
(* the call waits for its answer or died with its process: so an answer    *)
(* that the program hears is always the first one to its call.             *)
(***************************************************************************)
OneWritePerCall ==
  \A e \in Emails : \A i \in DOMAIN mutationQueue[e] :
    /\ calls[Writer(e, i)].pc \in {"setData", "lost"}
    /\ \A f \in Emails : \A j \in DOMAIN mutationQueue[f] :
         Writer(e, i) = Writer(f, j) => e = f /\ i = j

\* The writers of queued documents are calls.
LEMMA WritersAreCalls ==
  ASSUME TypeOK, NEW e \in Emails, NEW i \in DOMAIN mutationQueue[e]
  PROVE  Writer(e, i) \in Calls
<1>1. mutationQueue[e] \in Seq(Doc)
  BY DEF TypeOK
<1>2. mutationQueue[e][i] \in Doc
  BY <1>1
<1> QED
  BY <1>2 DEF Writer, Doc

\* A step that leaves the queues alone and no waiting call neither answers it
\* nor starts it anew.
LEMMA QueuesAlone ==
  ASSUME TypeOK, OneWritePerCall, UNCHANGED mutationQueue,
         \A c \in Calls : calls[c].pc \in {"setData", "lost"} =>
                            calls'[c].pc \in {"setData", "lost"}
  PROVE  OneWritePerCall'
BY WritersAreCalls DEF OneWritePerCall, Writer

\* saveInfoToFirestore: the call asked for a URL, so it has no write yet.
LEMMA SaveInfoAddsOne ==
  ASSUME IInv, OneWritePerCall, NEW c \in Calls, saveInfoToFirestore(c)
  PROVE  OneWritePerCall'
<1> DEFINE doc == [profileImageURL |-> c, email |-> calls[c].email, uid |-> currentUser]
           u == currentUser
           n == Len(mutationQueue[u]) + 1
<1>1. TypeOK /\ u \in Emails /\ mutationQueue \in [Emails -> Seq(Doc)] /\ calls \in [Calls -> Call]
  BY NoneAssumption DEF IInv, TypeOK, saveInfoToFirestore
<1>2. /\ mutationQueue' = [mutationQueue EXCEPT ![u] = Append(mutationQueue[u], doc)]
      /\ calls[c].pc = "downloadURL"
      /\ calls' = [calls EXCEPT ![c].pc = "setData"]
  BY DEF saveInfoToFirestore
<1>3. /\ \A e \in Emails \ {u} : mutationQueue'[e] = mutationQueue[e]
      /\ DOMAIN mutationQueue'[u] = DOMAIN mutationQueue[u] \cup {n}
      /\ n \notin DOMAIN mutationQueue[u]
      /\ \A i \in DOMAIN mutationQueue[u] : mutationQueue'[u][i] = mutationQueue[u][i]
      /\ mutationQueue'[u][n] = doc
  BY <1>1, <1>2
<1>4. \A e \in Emails : \A i \in DOMAIN mutationQueue[e] : Writer(e, i) \in Calls \ {c}
  BY <1>1, <1>2, WritersAreCalls DEF OneWritePerCall
<1>5. \A e \in Emails : \A i \in DOMAIN mutationQueue'[e] :
        \/ i \in DOMAIN mutationQueue[e] /\ Writer(e, i)' = Writer(e, i)
        \/ e = u /\ i = n /\ Writer(e, i)' = c
  BY <1>3 DEF Writer
<1>6. calls'[c].pc = "setData" /\ \A d \in Calls \ {c} : calls'[d] = calls[d]
  BY <1>1, <1>2 DEF Call
<1> QED
  BY <1>4, <1>5, <1>6 DEF OneWritePerCall

\* An answer removes the head of a queue, the only write of its call.
LEMMA AnswerRemovesOne ==
  ASSUME IInv, OneWritePerCall, NEW event \in {"true", "false"}, WriteAnswered(event)
  PROVE  OneWritePerCall'
<1> DEFINE u == currentUser
           c == Oldest.profileImageURL
<1>1. TypeOK /\ u \in Emails /\ mutationQueue \in [Emails -> Seq(Doc)]
  BY NoneAssumption DEF IInv, TypeOK, WriteAnswered
<1>2. mutationQueue[u] # <<>> /\ mutationQueue' = [mutationQueue EXCEPT ![u] = Tail(mutationQueue[u])]
  BY DEF WriteAnswered
<1>3. /\ \A e \in Emails \ {u} : mutationQueue'[e] = mutationQueue[e]
      /\ 1 \in DOMAIN mutationQueue[u] /\ c = Writer(u, 1)
      /\ \A i \in DOMAIN mutationQueue'[u] :
           /\ i \in Nat /\ i + 1 \in DOMAIN mutationQueue[u] /\ i + 1 # 1
           /\ mutationQueue'[u][i] = mutationQueue[u][i + 1]
  BY <1>1, <1>2 DEF Writer, Oldest
<1>4. \A d \in Calls \ {c} : calls'[d] = calls[d]
  BY AnswerCalls
<1> DEFINE Before(e, i) == IF e = u THEN i + 1 ELSE i
<1>5. \A e \in Emails : \A i \in DOMAIN mutationQueue'[e] :
        /\ Before(e, i) \in DOMAIN mutationQueue[e]
        /\ Writer(e, i)' = Writer(e, Before(e, i))
        /\ e = u => i \in Nat /\ Before(e, i) # 1
  BY <1>3 DEF Writer
<1>6. \A e \in Emails : \A i \in DOMAIN mutationQueue'[e] : Writer(e, i)' \in Calls \ {c}
  BY <1>1, <1>3, <1>5, WritersAreCalls DEF OneWritePerCall
<1>7. \A e \in Emails : \A i \in DOMAIN mutationQueue'[e] :
        calls'[Writer(e, i)'].pc \in {"setData", "lost"}
  BY <1>4, <1>5, <1>6 DEF OneWritePerCall
<1>8. ASSUME NEW e \in Emails, NEW i \in DOMAIN mutationQueue'[e],
             NEW f \in Emails, NEW j \in DOMAIN mutationQueue'[f],
             Writer(e, i)' = Writer(f, j)'
      PROVE  e = f /\ i = j
  <2>1. e = f /\ Before(e, i) = Before(f, j)
    BY <1>5, <1>8 DEF OneWritePerCall
  <2> QED
    BY <1>5, <2>1
<1> QED
  BY <1>7, <1>8 DEF OneWritePerCall, Writer

\* Every step keeps the queued writes apart.
LEMMA WritesStayApart ==
  ASSUME IInv, OneWritePerCall, [Next]_vars
  PROVE  OneWritePerCall'
<1> USE DEF AuthPC, StorePC
<1>1. TypeOK /\ calls \in [Calls -> Call]
  BY DEF IInv, TypeOK
<1> DEFINE Alone == /\ UNCHANGED mutationQueue
                    /\ \A c \in Calls : calls[c].pc \in {"setData", "lost"} =>
                                          calls'[c].pc \in {"setData", "lost"}
<1>2. CASE Launch \/ doLogout \/ UNCHANGED vars
  <2>1. Alone
    BY <1>2 DEF Launch, doLogout, backend, vars
  <2> QED
    BY <1>1, <2>1, QueuesAlone
<1>3. \A how : Terminate(how) => Alone
  BY <1>1 DEF Terminate, Pending, Call
<1>4. CASE \E c \in Calls, e \in Emails : performLogin(c, e) \/ performRegistration(c, e)
  <2>1. Alone
    BY <1>1, <1>4 DEF performLogin, performRegistration, Start, Idle, backend
  <2> QED
    BY <1>1, <2>1, QueuesAlone
<1>5. CASE \E c \in Calls : Progress(c)
  <2> SUFFICES ASSUME NEW c \in Calls, Progress(c)
               PROVE  OneWritePerCall'
    BY <1>5
  <2>1. CASE AuthAnswer(c) \/ updateCurrentUser(c)
    <3>1. Alone
      BY <1>1, <2>1 DEF AuthAnswer, SignInGranted, AccountCreated, AuthRefused,
         updateCurrentUser, backend
    <3> QED
      BY <1>1, <3>1, QueuesAlone
  <2>2. CASE AuthCallback(c)
    <3>1. Alone
      BY <1>1, <2>2 DEF AuthCallback, LoginCallback, CreateUserCallback, backend
    <3> QED
      BY <1>1, <3>1, QueuesAlone
  <2>3. CASE saveInfoToFirestore(c)
    BY <2>3, SaveInfoAddsOne
  <2>4. CASE ImageStored(c) \/ StorageFailed(c) \/ saveInfoToNobody(c)
    <3>1. Alone
      BY <1>1, <1>3, <2>4 DEF ImageStored, StorageFailed, saveInfoToNobody
    <3> QED
      BY <1>1, <3>1, QueuesAlone
  <2> QED
    BY <2>1, <2>2, <2>3, <2>4, <1>5 DEF Progress, StorageAnswer
<1>6. CASE WriteAcknowledged \/ WriteRejected
  BY <1>6, AnswerRemovesOne DEF WriteAcknowledged, WriteRejected
<1>7. CASE \E how \in {"killed", "badIndex"} : Terminate(how)
  BY <1>1, <1>3, <1>7, QueuesAlone
<1> QED
  BY <1>2, <1>4, <1>5, <1>6, <1>7 DEF Next

(***************************************************************************)
(* No call has two writes, and no write is of a call that was answered:    *)
(* with one subscription per write, each answer is to its own call.        *)
(***************************************************************************)
THEOREM WritesAreOfDifferentCalls == Spec => []OneWritePerCall
<1>1. Init => OneWritePerCall
  BY DEF Init, OneWritePerCall
<1>2. IInv /\ OneWritePerCall /\ [Next]_vars => OneWritePerCall'
  BY WritesStayApart
<1> QED
  BY <1>1, <1>2, Inductive, PTL DEF Spec
-----------------------------------------------------------------------------
(***************************************************************************)
(* The step refinement to WriteQueue.                                      *)
(***************************************************************************)

Waiting == {c \in Calls : calls[c].pc = "setData"}

Queue == [u \in Emails \cup {None} |->
            IF u = None THEN <<>>
            ELSE [i \in DOMAIN mutationQueue[u] |-> mutationQueue[u][i].profileImageURL]]

\* A sequence is a function.
LEMMA SeqIsFunction ==
  ASSUME NEW S, NEW s \in Seq(S)
  PROVE  s \in [1..Len(s) -> S]
OBVIOUS

\* The calls that wrote the documents of a queue, in order.
LEMMA NamesAreSeq ==
  ASSUME NEW q \in Seq(Doc)
  PROVE  /\ [i \in DOMAIN q |-> q[i].profileImageURL] \in Seq(Calls)
         /\ Len([i \in DOMAIN q |-> q[i].profileImageURL]) = Len(q)
<1> DEFINE names == [i \in DOMAIN q |-> q[i].profileImageURL]
<1>1. Len(q) \in Nat /\ DOMAIN q = 1..Len(q) /\ \A i \in 1..Len(q) : q[i] \in Doc
  OBVIOUS
<1>2. \A doc \in Doc : doc.profileImageURL \in Calls
  BY DEF Doc
<1>3. names \in [1..Len(q) -> Calls]
  BY <1>1, <1>2
<1> HIDE DEF names
<1>4. names \in Seq(Calls)
  BY <1>1, <1>3
<1>5. Len(names) = Len(q)
  BY <1>1, <1>3, <1>4
<1> QED
  BY <1>4, <1>5 DEF names

\* A step that leaves the writes and who waits for them alone changes at most
\* the user.
LEMMA UserStep ==
  ASSUME TypeOK', UNCHANGED mutationQueue, Waiting' = Waiting
  PROVE  Writes!Next
<1>1. currentUser' \in Emails \cup {None}
  BY DEF TypeOK
<1>2. Writes!SwitchUser(currentUser')
  BY DEF Writes!SwitchUser, Waiting
<1> QED
  BY <1>1, <1>2 DEF Writes!Next

\* One call moves, neither to nor from setData.
LEMMA WaitingSame ==
  ASSUME NEW c \in Calls, \A d \in Calls \ {c} : calls'[d] = calls[d],
         calls[c].pc # "setData", calls'[c].pc # "setData"
  PROVE  Waiting' = Waiting
BY DEF Waiting

\* A call that finishes is done, whatever it reports.
LEMMA FinishIsDone ==
  ASSUME NEW call \in Call, NEW event
  PROVE  Finish(call, event).pc = "done"
BY DEF Finish, Emit, Call

\* No completion survives the process.
LEMMA TerminateLosesWaiters ==
  ASSUME TypeOK, NEW how, Terminate(how)
  PROVE  Writes!Next
<1>1. Waiting' = {}
  <2>1. \A c \in Calls : calls'[c].pc # "setData"
    BY DEF Terminate, TypeOK, Call, Pending, AuthPC, StorePC
  <2> QED
    BY <2>1 DEF Waiting
<1>2. PICK u \in Emails \cup {None} : u = currentUser
  BY DEF TypeOK
<1>3. Writes!Restart(u)
  BY <1>1, <1>2 DEF Terminate, Writes!Restart, Waiting
<1> QED
  BY <1>3 DEF Writes!Next

\* setData puts one write at the end of the queue of the signed-in user.
LEMMA SaveInfoEnqueues ==
  ASSUME TypeOK, NEW c \in Calls, saveInfoToFirestore(c)
  PROVE  Writes!Next
<1> DEFINE doc == [profileImageURL |-> c, email |-> calls[c].email, uid |-> currentUser]
           q   == mutationQueue[currentUser]
<1>1. currentUser \in Emails /\ currentUser # None
  BY NoneAssumption DEF saveInfoToFirestore, TypeOK
<1>2. mutationQueue' = [mutationQueue EXCEPT ![currentUser] = Append(q, doc)]
  BY DEF saveInfoToFirestore
<1>3. mutationQueue \in [Emails -> Seq(Doc)]
  BY DEF TypeOK
<1>4. c \notin Waiting /\ Waiting' = Waiting \cup {c}
  BY DEF saveInfoToFirestore, Waiting, TypeOK, Call
<1>5. [i \in DOMAIN Append(q, doc) |-> Append(q, doc)[i].profileImageURL]
        = Append([i \in DOMAIN q |-> q[i].profileImageURL], c)
  <2> DEFINE names == [i \in DOMAIN q |-> q[i].profileImageURL]
  <2>1. q \in Seq(Doc) /\ Len(q) \in Nat /\ DOMAIN q = 1..Len(q)
    BY <1>1, <1>3
  <2>2. names \in Seq(Calls) /\ Len(names) = Len(q)
    BY <2>1, NamesAreSeq
  <2>3. DOMAIN Append(q, doc) = 1..(Len(q) + 1)
    BY <2>1
  <2>4. \A i \in 1..Len(q) : Append(q, doc)[i] = q[i]
    BY <2>1
  <2>5. Append(q, doc)[Len(q) + 1] = doc
    BY <2>1
  <2>6. doc.profileImageURL = c
    OBVIOUS
  <2> HIDE DEF doc, q, names
  <2>7. Append(names, c) = [i \in 1..(Len(q) + 1) |-> IF i = Len(q) + 1 THEN c ELSE names[i]]
    <3>1. Append(names, c) \in Seq(Calls) /\ Len(Append(names, c)) = Len(q) + 1
      BY <2>2
    <3>2. Append(names, c) \in [1..(Len(q) + 1) -> Calls]
      BY <3>1, SeqIsFunction
    <3>3. \A i \in 1..(Len(q) + 1) :
            Append(names, c)[i] = IF i = Len(q) + 1 THEN c ELSE names[i]
      BY <2>1, <2>2
    <3> QED
      BY <3>2, <3>3
  <2>8. \A i \in 1..Len(q) : names[i] = q[i].profileImageURL
    BY <2>1 DEF names
  <2>9. \A i \in 1..(Len(q) + 1) :
          Append(q, doc)[i].profileImageURL = IF i = Len(q) + 1 THEN c ELSE names[i]
    BY <2>1, <2>4, <2>5, <2>6, <2>8
  <2> QED
    BY <2>3, <2>7, <2>9 DEF names
<1>6. Queue' = [Queue EXCEPT ![currentUser] = Append(@, c)]
  BY <1>1, <1>2, <1>3, <1>5 DEF Queue
<1>7. PICK u \in Emails \cup {None} : u = currentUser
  BY <1>1
<1>8. Writes!Enqueue(u, c)
  BY <1>4, <1>6, <1>7 DEF Writes!Enqueue, Waiting, Queue, saveInfoToFirestore
<1> QED
  BY <1>8 DEF Writes!Next

\* An answer takes the oldest write of the signed-in user out of its queue and
\* ends the wait of the call that made it.
LEMMA AnswerAnswers ==
  ASSUME TypeOK, NEW event, WriteAnswered(event)
  PROVE  Writes!Next
<1> DEFINE q == mutationQueue[currentUser]
           c == Head(q).profileImageURL
<1>1. currentUser \in Emails /\ currentUser # None
  BY NoneAssumption DEF WriteAnswered, TypeOK
<1>2. mutationQueue \in [Emails -> Seq(Doc)]
  BY DEF TypeOK
<1>3. q \in Seq(Doc) /\ q # <<>>
  BY <1>1, <1>2 DEF WriteAnswered
<1>4. c \in Calls
  <2>1. q[1] \in Doc /\ Head(q) = q[1]
    BY <1>3
  <2> QED
    BY <2>1 DEF Doc
<1>5. mutationQueue' = [mutationQueue EXCEPT ![currentUser] = Tail(q)]
  BY DEF WriteAnswered
<1>6. Waiting' = Waiting \ {c}
  <2>1. calls' = [calls EXCEPT ![c] = IF @.pc = "setData" THEN Finish(@, event) ELSE @]
    BY DEF WriteAnswered
  <2>2. calls \in [Calls -> Call]
    BY DEF TypeOK
  <2>3. Finish(calls[c], event).pc = "done"
    BY <1>4, <2>2 DEF Finish, Emit, Call
  <2>4. calls'[c].pc # "setData"
    BY <1>4, <2>1, <2>2, <2>3
  <2>5. \A d \in Calls \ {c} : calls'[d] = calls[d]
    BY <2>1, <2>2
  <2> QED
    BY <1>4, <2>4, <2>5 DEF Waiting
<1>7. [i \in DOMAIN Tail(q) |-> Tail(q)[i].profileImageURL]
        = Tail([i \in DOMAIN q |-> q[i].profileImageURL])
  <2> DEFINE names == [i \in DOMAIN q |-> q[i].profileImageURL]
  <2>1. Len(q) \in Nat \ {0} /\ DOMAIN q = 1..Len(q)
    BY <1>3
  <2>2. names \in Seq(Calls) /\ Len(names) = Len(q)
    BY <1>3, NamesAreSeq
  <2>3. DOMAIN Tail(q) = 1..(Len(q) - 1)
    BY <1>3, <2>1
  <2>4. \A i \in 1..(Len(q) - 1) : Tail(q)[i] = q[i + 1]
    BY <1>3, <2>1
  <2> HIDE DEF q, names
  <2>5. Tail(names) = [i \in 1..(Len(q) - 1) |-> names[i + 1]]
    <3>1. Tail(names) \in Seq(Calls) /\ Len(Tail(names)) = Len(q) - 1
      BY <2>1, <2>2
    <3>2. Tail(names) \in [1..(Len(q) - 1) -> Calls]
      BY <3>1, SeqIsFunction
    <3>3. \A i \in 1..(Len(q) - 1) : Tail(names)[i] = names[i + 1]
      BY <2>1, <2>2
    <3> QED
      BY <3>2, <3>3
  <2>6. \A i \in 1..(Len(q) - 1) : names[i + 1] = Tail(q)[i].profileImageURL
    BY <2>1, <2>4 DEF names
  <2> QED
    BY <2>3, <2>5, <2>6 DEF names
<1>8. Queue' = [Queue EXCEPT ![currentUser] = Tail(@)]
  BY <1>1, <1>2, <1>5, <1>7 DEF Queue
<1>9. Queue[currentUser] # <<>> /\ Head(Queue[currentUser]) = c
  <2>1. Queue[currentUser] = [i \in DOMAIN q |-> q[i].profileImageURL]
    BY <1>1 DEF Queue
  <2>2. Len(q) \in Nat \ {0} /\ DOMAIN q = 1..Len(q) /\ Head(q) = q[1]
    BY <1>3
  <2> QED
    BY <2>1, <2>2
<1>10. Writes!Answer
  BY <1>6, <1>8, <1>9 DEF Writes!Answer, Waiting, Queue, WriteAnswered
<1> QED
  BY <1>10 DEF Writes!Next

(***************************************************************************)
(* AuthManager uses Firestore as WriteQueue promises it, for any addresses *)
(* and calls: no login, logout, failure or restart makes it see a write    *)
(* answered out of turn, twice or to the wrong call.                       *)
(***************************************************************************)
THEOREM PromiseSuffices == Spec => ReliesOnPromise
<1>1. Init => Writes!Init
  <2> SUFFICES ASSUME Init PROVE Writes!Init
    OBVIOUS
  <2>1. Queue = [u \in Emails \cup {None} |-> <<>>]
    BY DEF Init, Queue
  <2>2. Waiting = {}
    BY DEF Init, Waiting
  <2> QED
    BY <2>1, <2>2 DEF Init, Writes!Init, Queue, Waiting
<1>2. IInv /\ IInv' /\ [Next]_vars => [Writes!Next]_(Writes!vars)
  <2> SUFFICES ASSUME IInv, IInv', [Next]_vars PROVE [Writes!Next]_(Writes!vars)
    OBVIOUS
  <2> USE DEF IInv
  <2>1. CASE UNCHANGED vars
    BY <2>1 DEF vars, Writes!vars
  <2>2. CASE \E how \in {"killed", "badIndex"} : Terminate(how)
    BY <2>2, TerminateLosesWaiters
  <2>3. CASE Launch \/ doLogout
    BY <2>3, UserStep DEF Launch, doLogout, Waiting, backend
  <2> calls \in [Calls -> Call]
    BY DEF TypeOK
  <2>4. CASE \E c \in Calls, e \in Emails : performLogin(c, e) \/ performRegistration(c, e)
    <3>1. PICK c \in Calls, e \in Emails, op \in {"login", "register"} : Start(c, op, e)
      BY <2>4 DEF performLogin, performRegistration
    <3>2. Waiting' = Waiting
      BY <3>1, WaitingSame DEF Start, Idle
    <3> QED
      BY <3>1, <3>2, UserStep DEF Start, backend
  <2>5. CASE \E c \in Calls : Progress(c)
    <3> SUFFICES ASSUME NEW c \in Calls, Progress(c) PROVE Writes!Next
      BY <2>5
    <3>1. CASE AuthAnswer(c) \/ updateCurrentUser(c) \/ ImageStored(c)
      <4>1. PICK pc \in PCs \ {"setData"} :
              calls' = [calls EXCEPT ![c].pc = pc] /\ calls[c].pc # "setData"
        BY <3>1 DEF AuthAnswer, SignInGranted, AccountCreated, AuthRefused, updateCurrentUser,
                    ImageStored, PCs, AuthPC, StorePC
      <4>2. Waiting' = Waiting
        BY <4>1, Moved, WaitingSame
      <4> QED
        BY <3>1, <4>2, UserStep
           DEF AuthAnswer, SignInGranted, AccountCreated, AuthRefused, updateCurrentUser,
               ImageStored, backend
    <3>2. CASE AuthCallback(c) \/ StorageFailed(c)
      <4>1. calls[c].pc # "setData" /\ \A d \in Calls \ {c} : calls'[d] = calls[d]
        BY <3>2 DEF AuthCallback, LoginCallback, CreateUserCallback, StorageFailed
      <4>2. calls'[c].pc # "setData"
        <5>1. CASE LoginCallback(c)
          <6> DEFINE told == IF calls[c].pc = "refused" THEN Emit(calls[c], "error")
                             ELSE calls[c]
          <6>1. told \in Call
            BY DEF Emit, Call
          <6>2. calls'[c] = Finish(told, "true")
            BY <5>1 DEF LoginCallback
          <6> QED
            BY <6>1, <6>2, FinishIsDone
        <5>2. CASE CreateUserCallback(c)
          <6>1. calls'[c] = IF calls[c].pc = "refused" THEN Finish(calls[c], "false")
                            ELSE [calls[c] EXCEPT !.pc = "putData"]
            BY <5>2 DEF CreateUserCallback
          <6>2. [calls[c] EXCEPT !.pc = "putData"].pc = "putData"
            BY DEF Call
          <6> QED
            BY <6>1, <6>2, FinishIsDone
        <5>3. CASE StorageFailed(c)
          BY <5>3, FinishIsDone DEF StorageFailed
        <5> QED
          BY <3>2, <5>1, <5>2, <5>3 DEF AuthCallback
      <4>3. Waiting' = Waiting
        BY <4>1, <4>2, WaitingSame
      <4> QED
        BY <3>2, <4>3, UserStep
           DEF AuthCallback, LoginCallback, CreateUserCallback, StorageFailed, backend
    <3>3. CASE saveInfoToFirestore(c) \/ saveInfoToNobody(c)
      BY <3>3, SaveInfoEnqueues, TerminateLosesWaiters DEF saveInfoToNobody
    <3> QED
      BY <3>1, <3>2, <3>3 DEF Progress, StorageAnswer
  <2>6. CASE WriteAcknowledged \/ WriteRejected
    BY <2>6, AnswerAnswers DEF WriteAcknowledged, WriteRejected
  <2> QED
    BY <2>1, <2>2, <2>3, <2>4, <2>5, <2>6 DEF Next
<1> QED
  BY <1>1, <1>2, Inductive, PTL DEF Spec, ReliesOnPromise, Writes!Spec
=============================================================================
