--------------------------- MODULE OperatorProofs ---------------------------
(***************************************************************************)
(* What an operator's console rests on: proofs about OperatorSession, for  *)
(* any number of tabs, users, tokens and requests under way, and about     *)
(* PackageEditor, for any packages, names and number of edits.             *)
(*                                                                         *)
(* The pair of token and user is not inductive by itself: an answer to me  *)
(* writes the token of the session that was stored when the request was    *)
(* sent, so that session must have been genuine too, and still be; and the *)
(* answer is shown only where the shell is still mounted (LoadSound).      *)
(*                                                                         *)
(* The editor's invariant is inductive as it is.  Most of its proof is     *)
(* about the operators: the recursion of Kept is unrolled (KeptFrom), the  *)
(* parser keeps the form of a package (Parsed), what the selection is      *)
(* moved to is shown (SettledShown), what is cleaned names nothing that is *)
(* gone (CleanedOfGone), and what is renamed nothing of the old name       *)
(* (ReplacedReferences); then there are a lemma per edit for the invariant *)
(* and one for the references it leaves.                                   *)
(***************************************************************************)
EXTENDS OperatorSession, PackageEditor, SequenceTheorems, WellFoundedInduction, TLAPS

-----------------------------------------------------------------------------
(* OperatorSession                                                         *)

MeCalls == [kind : {"me"}, tab : Tabs, sent : Sent, fresh : BOOLEAN, live : BOOLEAN]
PageCalls == [kind : {"page"}, tab : Tabs, sent : Sent, fresh : BOOLEAN]
LoginCalls == [kind : {"login"}, tab : Tabs, user : Users, live : BOOLEAN]
LogoutCalls == [kind : {"logout"}, tab : Tabs]

LoadSound(c) == /\ call[c].sent # NoSession => Genuine(call[c].sent)
                /\ call[c].fresh => call[c].sent # NoSession
                /\ call[c].live => tab[call[c].tab].at = "console"

LoadsSound == \A c \in Calls : call[c].kind = "me" => LoadSound(c)

IInv == TypeOK /\ PairConsistent /\ LoadsSound

LEMMA NoSessionApart == ASSUME NEW s \in Session PROVE s # NoSession
  BY SessionAssumptions DEF Session

(* A session that was issued stays so: tokens are only added.              *)
LEMMA GenuineStable ==
  ASSUME TypeOK, NEW u \in Users, issuedTo' = issuedTo \/ issuedTo' = Append(issuedTo, u),
         NEW s \in Session, Genuine(s)
  PROVE  Genuine(s)'
  BY DEF TypeOK, Genuine, Session

LEMMA Initially == Init => IInv
<1> SUFFICES ASSUME Init PROVE IInv  OBVIOUS
<1>1. TypeOK
  BY SessionAssumptions DEF Init, TypeOK, LoginForm, Tab, Free
<1>2. PairConsistent
  BY DEF Init, PairConsistent, LoginForm
<1>3. LoadsSound
  BY DEF Init, LoadsSound, Free
<1> QED BY <1>1, <1>2, <1>3 DEF IInv

(* The kind of a call tells which record it is.                            *)
LEMMA CallKinds ==
  ASSUME NEW s \in Call \cup {Free}
  PROVE  /\ s.kind = "me" => s \in MeCalls
         /\ s.kind = "page" => s \in PageCalls
         /\ s.kind = "login" => s \in LoginCalls
         /\ s.kind = "logout" => s \in LogoutCalls
         /\ s # Free => s \in MeCalls \/ s \in PageCalls \/ s \in LoginCalls \/ s \in LogoutCalls
  BY DEF Call, Free, MeCalls, PageCalls, LoginCalls, LogoutCalls

(* Unmounting clears flags and leaves the calls what they are.             *)
LEMMA UnmountedTyped ==
  ASSUME TypeOK, NEW t \in Tabs
  PROVE  /\ Unmounted(t) \in [Calls -> Call \cup {Free}]
         /\ \A c \in Calls : /\ Unmounted(t)[c].kind = call[c].kind
                             /\ call[c].kind \in {"me", "page"} =>
                                   Unmounted(t)[c].sent = call[c].sent
<1> SUFFICES ASSUME NEW c \in Calls
             PROVE  /\ Unmounted(t)[c] \in Call \cup {Free}
                    /\ Unmounted(t)[c].kind = call[c].kind
                    /\ call[c].kind \in {"me", "page"} =>
                           Unmounted(t)[c].sent = call[c].sent
  BY DEF Unmounted
<1>0. call[c] \in Call \cup {Free}
  BY DEF TypeOK
<1>1. CASE call[c].kind = "me"
  <2>1. call[c] \in MeCalls
    BY <1>0, <1>1, CallKinds
  <2> QED BY <1>1, <2>1 DEF Unmounted, MeCalls, Call
<1>2. CASE call[c].kind = "login"
  <2>1. call[c] \in LoginCalls
    BY <1>0, <1>2, CallKinds
  <2> QED BY <1>2, <2>1 DEF Unmounted, LoginCalls, Call
<1>3. CASE call[c].kind \notin {"me", "login"}
  BY <1>0, <1>3 DEF Unmounted
<1> QED BY <1>1, <1>2, <1>3

(* What a new request carries is what is stored.                           *)
LEMMA MeCallTyped ==
  ASSUME TypeOK, NEW t \in Tabs
  PROVE  MeCall(t) \in MeCalls /\ PageCall(t) \in PageCalls
  BY DEF TypeOK, MeCall, PageCall, MeCalls, PageCalls, Sent, Fresh

(* An answer to me confirms the very session that was sent.                *)
LEMMA ConfirmedIsSent ==
  ASSUME IInv, NEW c \in Calls, call[c].kind = "me", "ok" \in Answers(call[c])
  PROVE  /\ Confirmed(call[c]) = call[c].sent
         /\ call[c].sent \in Session
         /\ Genuine(call[c].sent)
<1>1. call[c] \in MeCalls
  BY CallKinds DEF IInv, TypeOK
<1>2. call[c].fresh
  BY DEF Answers
<1>3. call[c].sent # NoSession /\ Genuine(call[c].sent)
  BY <1>2 DEF IInv, LoadsSound, LoadSound
<1>4. call[c].sent \in Session
  BY <1>1, <1>3 DEF MeCalls, Sent
<1> QED BY <1>3, <1>4 DEF Confirmed, Genuine, Session

(* A shell after an answer to me.                                          *)
LEMMA ShellTyped ==
  ASSUME NEW shell \in [at : {"console"}, ready : BOOLEAN, error : BOOLEAN, session : Sent],
         NEW s, NEW answer \in {"ok", "unauthorized", "unavailable"},
         answer = "ok" => Confirmed(s) \in Session
  PROVE  /\ ShellAfterMe(shell, answer, s) \in Tab
         /\ ShellAfterMe(shell, answer, s).at = "console"
         /\ ShellAfterMe(shell, answer, s).session
               = IF answer = "ok" THEN Confirmed(s) ELSE NoSession
  BY DEF ShellAfterMe, Tab, Sent
(* What unmounting does to the two facts about calls: no load of tab t is  *)
(* live any more.                                                          *)
LEMMA UnmountedInv ==
  ASSUME IInv, NEW t \in Tabs, NEW c \in Calls
  PROVE  Unmounted(t)[c].kind = "me" =>
           /\ call[c].kind = "me"
           /\ Unmounted(t)[c].sent = call[c].sent
           /\ Unmounted(t)[c].fresh = call[c].fresh
           /\ Unmounted(t)[c].tab = call[c].tab
           /\ Unmounted(t)[c].live => call[c].live /\ call[c].tab # t
<1>0. call[c] \in Call \cup {Free}
  BY DEF IInv, TypeOK
<1>1. CASE call[c].kind = "me"
  <2>1. call[c] \in MeCalls /\ call[c] # Free
    BY <1>0, <1>1, CallKinds DEF Free
  <2>2. CASE call[c].tab = t
    BY <1>1, <2>1, <2>2 DEF Unmounted, Of, MeCalls
  <2>3. CASE call[c].tab # t
    BY <1>1, <2>1, <2>3 DEF Unmounted, Of, MeCalls
  <2> QED BY <2>2, <2>3
<1>2. CASE call[c].kind # "me"
  BY <1>2, UnmountedTyped DEF IInv
<1> QED BY <1>1, <1>2

LEMMA CheckingTyped ==
  ASSUME NEW session \in Sent
  PROVE  /\ Checking(session) \in Tab
         /\ Checking(session).at = "console"
         /\ Checking(session).session = session
         /\ LoginForm \in Tab
         /\ LoginForm.at = "login"
  BY DEF Checking, LoginForm, Tab, Sent

(* A shell's record, by the page the tab is on.                            *)
LEMMA ShellRecord ==
  ASSUME TypeOK, NEW t \in Tabs, tab[t].at = "console"
  PROVE  tab[t] \in [at : {"console"}, ready : BOOLEAN, error : BOOLEAN, session : Sent]
  BY DEF TypeOK, Tab, Sent

(* A load that is sent now carries what is stored.                         *)
LEMMA NewLoadSound ==
  ASSUME IInv, NEW t \in Tabs, NEW c \in Calls, call'[c] = MeCall(t), stored' = stored,
         issuedTo' = issuedTo, tab'[t].at = "console"
  PROVE  LoadSound(c)'
<1>1. call'[c].sent = stored /\ call'[c].tab = t
  BY DEF MeCall
<1>2. call'[c].fresh => stored # NoSession
  <2>1. CASE Fresh
    BY <2>1 DEF Fresh
  <2>2. CASE ~Fresh
    <3>1. Fresh = FALSE
      BY <2>2 DEF Fresh
    <3> QED BY <3>1 DEF MeCall
  <2> QED BY <2>1, <2>2
<1>3. stored # NoSession => Genuine(stored)
  BY DEF IInv, PairConsistent
<1>4. stored # NoSession => Genuine(stored)'
  BY <1>3 DEF Genuine
<1>5. (call[c].sent # NoSession => Genuine(call[c].sent))'
  BY <1>1, <1>4 DEF Genuine
<1>6. (call[c].fresh => call[c].sent # NoSession)'
  BY <1>1, <1>2
<1>7. (call[c].live => tab[call[c].tab].at = "console")'
  BY <1>1
<1> QED BY <1>5, <1>6, <1>7 DEF LoadSound

(* A load that was under way and goes on.                                  *)
LEMMA OldLoadSound ==
  ASSUME IInv, NEW c \in Calls, call[c].kind = "me",
         call'[c].sent = call[c].sent, call'[c].fresh = call[c].fresh,
         call'[c].tab = call[c].tab, call'[c].live => call[c].live,
         \A s \in Session : Genuine(s) => Genuine(s)',
         call'[c].live => tab'[call[c].tab].at = "console"
  PROVE  LoadSound(c)'
<1>1. LoadSound(c)
  BY DEF IInv, LoadsSound
<1>2. call[c].sent \in Sent
  BY CallKinds DEF IInv, TypeOK, MeCalls
<1>3. (call[c].sent # NoSession => Genuine(call[c].sent))'
  <2>1. CASE call[c].sent = NoSession
    BY <2>1
  <2>2. CASE call[c].sent # NoSession
    BY <1>1, <1>2, <2>2 DEF LoadSound, Sent, Genuine
  <2> QED BY <2>1, <2>2
<1> QED BY <1>1, <1>3 DEF LoadSound

-----------------------------------------------------------------------------
LEMMA MountKeeps ==
  ASSUME IInv, NEW t \in Tabs, NEW c \in Calls, Mount(t, c)
  PROVE  IInv'
<1> USE DEF Mount
<1>1. TypeOK'
  <2>1. tab' \in [Tabs -> Tab]
    BY CheckingTyped DEF IInv, TypeOK, Sent
  <2>2. call' \in [Calls -> Call \cup {Free}]
    BY UnmountedTyped, MeCallTyped DEF IInv, Call, MeCalls
  <2> QED BY <2>1, <2>2 DEF IInv, TypeOK
<1>2. PairConsistent'
  BY CheckingTyped DEF IInv, TypeOK, PairConsistent, Genuine, Sent
<1>3. LoadsSound'
  <2> SUFFICES ASSUME NEW d \in Calls, call'[d].kind = "me"
               PROVE  LoadSound(d)'
    BY DEF LoadsSound
  <2>1. CASE d = c
    <3>1. call'[d] = MeCall(t)
      BY <2>1, UnmountedTyped DEF IInv
    <3>2. tab'[t].at = "console"
      BY CheckingTyped DEF IInv, TypeOK, Sent
    <3> QED BY <2>1, <3>1, <3>2, NewLoadSound
  <2>2. CASE d # c
    <3>1. call'[d] = Unmounted(t)[d]
      BY <2>2, UnmountedTyped DEF IInv
    <3>2. /\ call[d].kind = "me"
          /\ call'[d].sent = call[d].sent
          /\ call'[d].fresh = call[d].fresh
          /\ call'[d].tab = call[d].tab
          /\ call'[d].live => call[d].live /\ call[d].tab # t
      BY <3>1, UnmountedInv
    <3>3. call[d].tab \in Tabs
      BY <3>2, CallKinds DEF IInv, TypeOK, MeCalls
    <3>4. tab'[call[d].tab] = tab[call[d].tab] \/ call[d].tab = t
      BY <3>3 DEF IInv, TypeOK
    <3> QED BY <3>2, <3>4 DEF LoadSound, LoadsSound, IInv, Genuine
  <2> QED BY <2>1, <2>2
<1> QED BY <1>1, <1>2, <1>3 DEF IInv

LEMMA RetryKeeps ==
  ASSUME IInv, NEW t \in Tabs, NEW c \in Calls, Retry(t, c)
  PROVE  IInv'
<1> USE DEF Retry
<1>0. tab[t].at = "console"
  BY DEF Shows, IInv, TypeOK, Tab
<1>1. TypeOK'
  <2>1. tab' \in [Tabs -> Tab]
    BY <1>0, ShellRecord, CheckingTyped DEF IInv, TypeOK
  <2>2. call' \in [Calls -> Call \cup {Free}]
    BY MeCallTyped DEF IInv, TypeOK, Call, MeCalls
  <2> QED BY <2>1, <2>2 DEF IInv, TypeOK
<1>2. PairConsistent'
  <2>1. tab[t].session \in Sent
    BY <1>0, ShellRecord DEF IInv
  <2> QED BY <1>0, <2>1, CheckingTyped DEF IInv, TypeOK, PairConsistent, Genuine
<1>3. LoadsSound'
  <2>1. tab[t].session \in Sent
    BY <1>0, ShellRecord DEF IInv
  <2>2. tab'[t].at = "console"
    BY <2>1, CheckingTyped DEF IInv, TypeOK
  <2> SUFFICES ASSUME NEW d \in Calls, call'[d].kind = "me"
               PROVE  LoadSound(d)'
    BY DEF LoadsSound
  <2>3. CASE d = c
    <3>1. call'[d] = MeCall(t)
      BY <2>3 DEF IInv, TypeOK
    <3> QED BY <2>2, <2>3, <3>1, NewLoadSound
  <2>4. CASE d # c
    <3>1. call'[d] = call[d]
      BY <2>4 DEF IInv, TypeOK
    <3>2. call[d].tab \in Tabs
      BY <3>1, CallKinds DEF IInv, TypeOK, MeCalls
    <3> QED BY <2>2, <3>1, <3>2 DEF LoadSound, LoadsSound, IInv, TypeOK, Genuine
  <2> QED BY <2>3, <2>4
<1> QED BY <1>1, <1>2, <1>3 DEF IInv

LEMMA LoadsKept ==
  ASSUME IInv, \A s \in Session : Genuine(s) => Genuine(s)',
         \A d \in Calls : call'[d].kind = "me" =>
            /\ call[d].kind = "me"
            /\ call'[d].sent = call[d].sent
            /\ call'[d].fresh = call[d].fresh
            /\ call'[d].tab = call[d].tab
            /\ call'[d].live => call[d].live /\ tab'[call[d].tab].at = "console"
  PROVE  LoadsSound'
  BY OldLoadSound DEF LoadsSound

LEMMA LoadMounted ==
  ASSUME IInv, NEW c \in Calls, call[c].kind = "me"
  PROVE  call[c].tab \in Tabs /\ (call[c].live => tab[call[c].tab].at = "console")
  BY CallKinds DEF IInv, TypeOK, LoadsSound, LoadSound, MeCalls

LEMMA OpenLoginKeeps == ASSUME IInv, NEW t \in Tabs, OpenLogin(t) PROVE IInv'
<1> USE DEF OpenLogin
<1>1. TypeOK'
  BY UnmountedTyped, CheckingTyped DEF IInv, TypeOK, Sent
<1>2. PairConsistent'
  BY DEF IInv, TypeOK, PairConsistent, Genuine, LoginForm
<1>3. LoadsSound'
  <2>1. \A s \in Session : Genuine(s) => Genuine(s)'
    BY DEF Genuine
  <2> QED BY <2>1, LoadsKept, UnmountedInv, LoadMounted DEF IInv, TypeOK
<1> QED BY <1>1, <1>2, <1>3 DEF IInv

LEMMA ReloadKeeps == ASSUME IInv, NEW t \in Tabs, Reload(t) PROVE IInv'
<1> USE DEF Reload
<1>1. TypeOK'
  BY CheckingTyped DEF IInv, TypeOK, Sent
<1>2. PairConsistent'
  BY DEF IInv, TypeOK, PairConsistent, Genuine, LoginForm
<1>3. LoadsSound'
  <2>1. \A s \in Session : Genuine(s) => Genuine(s)'
    BY DEF Genuine
  <2>2. \A d \in Calls : call'[d].kind = "me" => call'[d] = call[d] /\ call[d].tab # t
    BY DEF Of, Free
  <2> QED BY <2>1, <2>2, LoadsKept, LoadMounted DEF IInv, TypeOK
<1> QED BY <1>1, <1>2, <1>3 DEF IInv

(* Steps that change neither the storage nor what is mounted.              *)
LEMMA QuietKeeps ==
  ASSUME IInv, UNCHANGED <<stored, issuedTo, expired, tab>>,
         NEW c \in Calls, NEW new \in Call \cup {Free}, new.kind # "me",
         call' = [call EXCEPT ![c] = new]
  PROVE  IInv'
<1>1. TypeOK'
  BY DEF IInv, TypeOK
<1>2. PairConsistent'
  BY DEF IInv, PairConsistent, Genuine
<1>3. LoadsSound'
  <2>1. \A s \in Session : Genuine(s) => Genuine(s)'
    BY DEF Genuine
  <2>2. \A d \in Calls : call'[d].kind = "me" => call'[d] = call[d]
    BY DEF IInv, TypeOK
  <2> QED BY <2>1, <2>2, LoadsKept, LoadMounted
<1> QED BY <1>1, <1>2, <1>3 DEF IInv

LEMMA RequestsKeep ==
  ASSUME IInv, NEW t \in Tabs, NEW c \in Calls, SignOut(t, c) \/ PageRequest(t, c)
  PROVE  IInv'
<1>1. CASE SignOut(t, c)
  <2>1. [kind |-> "logout", tab |-> t] \in Call
    BY DEF Call
  <2> QED BY <1>1, <2>1, QuietKeeps DEF SignOut
<1>2. CASE PageRequest(t, c)
  <2>1. PageCall(t) \in Call /\ PageCall(t).kind # "me"
    BY MeCallTyped DEF IInv, Call, PageCalls, PageCall
  <2> QED BY <1>2, <2>1, QuietKeeps DEF PageRequest
<1> QED BY <1>1, <1>2

LEMMA SubmitKeeps ==
  ASSUME IInv, NEW t \in Tabs, NEW c \in Calls, NEW user \in Users, Submit(t, c, user)
  PROVE  IInv'
<1> USE DEF Submit
<1>1. TypeOK'
  <2>1. [at |-> "login", busy |-> TRUE] \in Tab
    BY DEF Tab
  <2>2. [kind |-> "login", tab |-> t, user |-> user, live |-> TRUE] \in Call
    BY DEF Call
  <2> QED BY <2>1, <2>2 DEF IInv, TypeOK
<1>2. PairConsistent'
  BY DEF IInv, TypeOK, PairConsistent, Genuine
<1>3. LoadsSound'
  <2>1. \A s \in Session : Genuine(s) => Genuine(s)'
    BY DEF Genuine
  <2>2. \A d \in Calls : call'[d].kind = "me" => call'[d] = call[d]
    BY DEF IInv, TypeOK
  <2>3. \A u \in Tabs : tab[u].at = "console" => tab'[u].at = "console"
    BY DEF IInv, TypeOK
  <2> QED BY <2>1, <2>2, <2>3, LoadsKept, LoadMounted
<1> QED BY <1>1, <1>2, <1>3 DEF IInv

LEMMA ExpireKeeps ==
  ASSUME IInv, NEW k \in DOMAIN issuedTo, Expire(k)
  PROVE  IInv'
<1> USE DEF Expire
<1>1. TypeOK'
  BY DEF IInv, TypeOK
<1>2. PairConsistent'
  BY DEF IInv, PairConsistent, Genuine
<1>3. LoadsSound'
  BY LoadsKept, LoadMounted DEF Genuine
<1> QED BY <1>1, <1>2, <1>3 DEF IInv
-----------------------------------------------------------------------------
LEMMA ReceiveMeKeeps ==
  ASSUME IInv, NEW c \in Calls, NEW answer \in {"ok", "unauthorized", "unavailable"},
         ReceiveMe(c, answer)
  PROVE  IInv'
<1> DEFINE s == call[c]
<1>1. /\ s.kind = "me"
      /\ answer \in Answers(s)
      /\ stored' = StoredAfter(answer, s)
      /\ tab' = IF s.live THEN [tab EXCEPT ![s.tab] = ShellAfterMe(@, answer, s)] ELSE tab
      /\ call' = [call EXCEPT ![c] = Free]
      /\ UNCHANGED <<issuedTo, expired>>
  BY DEF ReceiveMe
<1>2. answer = "ok" => Confirmed(s) \in Session /\ Genuine(Confirmed(s))
  BY <1>1, ConfirmedIsSent
<1>3. stored' \in Sent /\ (stored' # NoSession => Genuine(stored'))
  BY <1>1, <1>2, NoSessionApart DEF StoredAfter, IInv, TypeOK, PairConsistent, Sent
<1>4. CASE s.live
  <2>1. s.tab \in Tabs /\ tab[s.tab].at = "console"
    BY <1>1, <1>4, LoadMounted
  <2>2. tab[s.tab] \in [at : {"console"}, ready : BOOLEAN, error : BOOLEAN, session : Sent]
    BY <2>1, ShellRecord DEF IInv
  <2>3. /\ ShellAfterMe(tab[s.tab], answer, s) \in Tab
        /\ ShellAfterMe(tab[s.tab], answer, s).at = "console"
        /\ ShellAfterMe(tab[s.tab], answer, s).session
              = IF answer = "ok" THEN Confirmed(s) ELSE NoSession
    BY <1>2, <2>2, ShellTyped
  <2>4. TypeOK'
    BY <1>1, <1>3, <1>4, <2>1, <2>3 DEF IInv, TypeOK, Sent
  <2>5. PairConsistent'
    BY <1>1, <1>2, <1>3, <1>4, <2>1, <2>3 DEF IInv, TypeOK, PairConsistent, Genuine
  <2>6. LoadsSound'
    <3>1. \A d \in Calls : call'[d].kind = "me" => call'[d] = call[d]
      BY <1>1 DEF IInv, TypeOK, Free
    <3>2. \A u \in Tabs : tab[u].at = "console" => tab'[u].at = "console"
      BY <1>1, <1>4, <2>1, <2>3 DEF IInv, TypeOK
    <3>3. \A r \in Session : Genuine(r) => Genuine(r)'
      BY <1>1 DEF Genuine
    <3> QED BY <3>1, <3>2, <3>3, LoadsKept, LoadMounted
  <2> QED BY <2>4, <2>5, <2>6 DEF IInv
<1>5. CASE ~s.live
  <2>1. tab' = tab
    BY <1>1, <1>5
  <2>2. TypeOK'
    BY <1>1, <1>3, <2>1 DEF IInv, TypeOK, Sent
  <2>3. PairConsistent'
    BY <1>1, <1>3, <2>1 DEF IInv, TypeOK, PairConsistent, Genuine
  <2>4. LoadsSound'
    <3>1. \A d \in Calls : call'[d].kind = "me" => call'[d] = call[d]
      BY <1>1 DEF IInv, TypeOK, Free
    <3>2. \A r \in Session : Genuine(r) => Genuine(r)'
      BY <1>1 DEF Genuine
    <3> QED BY <2>1, <3>1, <3>2, LoadsKept, LoadMounted
  <2> QED BY <2>2, <2>3, <2>4 DEF IInv
<1> QED BY <1>4, <1>5

(* Answers that leave the storage alone or clear it, and may take the tab  *)
(* to a fresh login form.                                                  *)
LEMMA ClearingKeeps ==
  ASSUME IInv, NEW c \in Calls, stored' \in {stored, NoSession},
         UNCHANGED <<issuedTo, expired>>, tab' = tab, call' = [call EXCEPT ![c] = Free]
  PROVE  IInv'
<1>1. TypeOK'
  BY DEF IInv, TypeOK
<1>2. PairConsistent'
  <2>1. stored' # NoSession => Genuine(stored)
    BY DEF IInv, PairConsistent
  <2> QED BY <2>1 DEF IInv, PairConsistent, Genuine
<1>3. LoadsSound'
  <2>1. \A d \in Calls : call'[d].kind = "me" => call'[d] = call[d]
    BY DEF IInv, TypeOK, Free
  <2>2. \A r \in Session : Genuine(r) => Genuine(r)'
    BY DEF Genuine
  <2> QED BY <2>1, <2>2, LoadsKept, LoadMounted
<1> QED BY <1>1, <1>2, <1>3 DEF IInv

LEMMA ReceivePageKeeps ==
  ASSUME IInv, NEW c \in Calls, NEW answer \in {"ok", "unauthorized", "unavailable"},
         ReceivePage(c, answer)
  PROVE  IInv'
<1>1. stored' \in {stored, NoSession}
  BY DEF ReceivePage, StoredAfter
<1> QED BY <1>1, ClearingKeeps DEF ReceivePage

LEMMA ToLoginKeeps ==
  ASSUME IInv, NEW c \in Calls, NEW t \in Tabs, stored' \in {stored, NoSession},
         UNCHANGED <<issuedTo, expired>>, tab' = [tab EXCEPT ![t] = LoginForm],
         \/ call' = [Unmounted(t) EXCEPT ![c] = Free]
         \/ tab[t].at = "login" /\ call' = [call EXCEPT ![c] = Free]
  PROVE  IInv'
<1>1. TypeOK'
  BY UnmountedTyped, CheckingTyped DEF IInv, TypeOK, Sent
<1>2. PairConsistent'
  BY DEF IInv, TypeOK, PairConsistent, Genuine, LoginForm
<1>3. LoadsSound'
  <2>1. \A r \in Session : Genuine(r) => Genuine(r)'
    BY DEF Genuine
  <2>2. \A u \in Tabs : u # t => tab'[u] = tab[u]
    BY DEF IInv, TypeOK
  <2>3. CASE call' = [Unmounted(t) EXCEPT ![c] = Free]
    <3>1. \A d \in Calls : call'[d].kind = "me" => call'[d] = Unmounted(t)[d]
      BY <2>3, UnmountedTyped DEF IInv, Free
    <3> QED BY <2>1, <2>2, <3>1, LoadsKept, UnmountedInv, LoadMounted
  <2>4. CASE tab[t].at = "login" /\ call' = [call EXCEPT ![c] = Free]
    <3>1. \A d \in Calls : call'[d].kind = "me" => call'[d] = call[d]
      BY <2>4 DEF IInv, TypeOK, Free
    <3>2. \A d \in Calls : call[d].kind = "me" /\ call[d].live => call[d].tab # t
      BY <2>4, LoadMounted
    <3> QED BY <2>1, <2>2, <3>1, <3>2, LoadsKept, LoadMounted
  <2> QED BY <2>3, <2>4
<1> QED BY <1>1, <1>2, <1>3 DEF IInv

LEMMA LoginRefusedKeeps ==
  ASSUME IInv, NEW c \in Calls, NEW answer \in {"ok", "unauthorized", "unavailable"},
         LoginRefused(c, answer)
  PROVE  IInv'
<1>1. stored' \in {stored, NoSession}
  BY DEF LoginRefused, StoredAfter
<1>2. call[c].tab \in Tabs
  BY CallKinds DEF LoginRefused, IInv, TypeOK, LoginCalls
<1>3. CASE call[c].live /\ tab[call[c].tab].at = "login"
  BY <1>1, <1>2, <1>3, ToLoginKeeps DEF LoginRefused
<1>4. CASE ~(call[c].live /\ tab[call[c].tab].at = "login")
  BY <1>1, <1>4, ClearingKeeps DEF LoginRefused
<1> QED BY <1>3, <1>4

LEMMA ReceiveLogoutKeeps ==
  ASSUME IInv, NEW c \in Calls, NEW answer \in {"ok", "unauthorized", "unavailable"},
         ReceiveLogout(c, answer)
  PROVE  IInv'
<1>1. call[c].tab \in Tabs
  BY CallKinds DEF ReceiveLogout, IInv, TypeOK, LogoutCalls
<1>2. CASE tab[call[c].tab].at = "console"
  BY <1>1, <1>2, ToLoginKeeps DEF ReceiveLogout
<1>3. CASE tab[call[c].tab].at # "console"
  BY <1>3, ClearingKeeps DEF ReceiveLogout
<1> QED BY <1>2, <1>3

LEMMA LoginAcceptedKeeps ==
  ASSUME IInv, NEW c \in Calls, LoginAccepted(c)
  PROVE  IInv'
<1> DEFINE s == call[c]
           session == [token |-> Len(issuedTo) + 1, user |-> s.user]
           load == [kind |-> "me", tab |-> s.tab, sent |-> session, fresh |-> TRUE,
                    live |-> TRUE]
<1>1. s.tab \in Tabs /\ s.user \in Users /\ s.kind = "login"
  BY CallKinds DEF LoginAccepted, IInv, TypeOK, LoginCalls
<1>2. /\ issuedTo' = Append(issuedTo, s.user)
      /\ issuedTo' \in Seq(Users) /\ Len(issuedTo') <= MaxTokens
      /\ DOMAIN issuedTo \subseteq DOMAIN issuedTo'
      /\ stored' = session
      /\ expired' = expired
  <2>1. issuedTo' = Append(issuedTo, s.user) /\ Len(issuedTo) < MaxTokens
    BY DEF LoginAccepted
  <2>2. issuedTo \in Seq(Users) /\ Len(issuedTo) \in Nat
    BY DEF IInv, TypeOK
  <2>3. Len(issuedTo') = Len(issuedTo) + 1 /\ issuedTo' \in Seq(Users)
    BY <1>1, <2>1, <2>2
  <2>4. Len(issuedTo') <= MaxTokens
    BY <2>1, <2>2, <2>3, SessionAssumptions
  <2>5. DOMAIN issuedTo \subseteq DOMAIN issuedTo'
    BY <2>2, <2>3
  <2> QED BY <2>1, <2>3, <2>4, <2>5 DEF LoginAccepted
<1>3. session \in Session /\ Genuine(stored)'
  <2>1. Len(issuedTo) + 1 \in 1..MaxTokens /\ Len(issuedTo) + 1 \in DOMAIN issuedTo'
    BY <1>1, SessionAssumptions DEF LoginAccepted, IInv, TypeOK
  <2>2. session \in Session
    BY <1>1, <2>1 DEF Session
  <2>3. issuedTo'[Len(issuedTo) + 1] = s.user
    BY <1>1, <1>2 DEF IInv, TypeOK
  <2> QED BY <1>2, <2>1, <2>2, <2>3 DEF Genuine
<1>4. \A r \in Session : Genuine(r) => Genuine(r)'
  BY <1>1, <1>2, GenuineStable DEF IInv
<1>5. CASE tab[s.tab].at = "console"
  <2>1. tab' = tab /\ call' = [call EXCEPT ![c] = Free]
    BY <1>5 DEF LoginAccepted
  <2>2. TypeOK'
    BY <1>2, <1>3, <2>1 DEF IInv, TypeOK
  <2>3. PairConsistent'
    <3>1. \A t \in Tabs : tab[t].at = "console" => tab[t].session \in Sent
      BY ShellRecord DEF IInv
    <3> QED BY <1>2, <1>3, <1>4, <2>1, <3>1 DEF IInv, PairConsistent, Sent, Genuine
  <2>4. LoadsSound'
    <3>1. \A d \in Calls : call'[d].kind = "me" => call'[d] = call[d]
      BY <2>1 DEF IInv, TypeOK, Free
    <3> QED BY <1>4, <2>1, <3>1, LoadsKept, LoadMounted
  <2> QED BY <2>2, <2>3, <2>4 DEF IInv
<1>6. CASE tab[s.tab].at # "console"
  <2>1. /\ tab' = [tab EXCEPT ![s.tab] = Checking(NoSession)]
        /\ call' = [Unmounted(s.tab) EXCEPT ![c] = load]
    BY <1>6 DEF LoginAccepted
  <2>2. load \in MeCalls
    BY <1>1, <1>3 DEF MeCalls, Sent
  <2>3. TypeOK'
    BY <1>1, <1>2, <1>3, <2>1, <2>2, UnmountedTyped, CheckingTyped
    DEF IInv, TypeOK, Sent, Call, MeCalls
  <2>4. PairConsistent'
    <3>1. \A t \in Tabs : tab[t].at = "console" => tab[t].session \in Sent
      BY ShellRecord DEF IInv
    <3>2. \A t \in Tabs : tab'[t].at = "console" /\ tab'[t].session # NoSession
                             => tab[t].at = "console" /\ tab'[t] = tab[t]
      BY <1>1, <2>1, CheckingTyped DEF IInv, TypeOK, Sent
    <3> QED BY <1>2, <1>3, <1>4, <3>1, <3>2 DEF IInv, PairConsistent, Sent, Genuine
  <2>5. LoadsSound'
    <3> SUFFICES ASSUME NEW d \in Calls, call'[d].kind = "me" PROVE LoadSound(d)'
      BY DEF LoadsSound
    <3>1. CASE d = c
      <4>1. call'[d] = load /\ tab'[s.tab].at = "console"
        BY <1>1, <2>1, <3>1, UnmountedTyped, CheckingTyped DEF IInv, TypeOK, Sent
      <4>2. session # NoSession
        BY <1>3, NoSessionApart
      <4>3. call'[d].sent = stored'
        BY <1>2, <4>1
      <4>4. Genuine(call[d].sent)'
        BY <1>3, <4>3 DEF Genuine
      <4>5. call'[d].sent # NoSession /\ call'[d].tab = s.tab
        BY <4>1, <4>2
      <4> QED BY <4>1, <4>4, <4>5 DEF LoadSound
    <3>2. CASE d # c
      <4>1. call'[d] = Unmounted(s.tab)[d]
        BY <1>1, <2>1, <3>2, UnmountedTyped DEF IInv
      <4>2. /\ call[d].kind = "me"
            /\ call'[d].sent = call[d].sent
            /\ call'[d].fresh = call[d].fresh
            /\ call'[d].tab = call[d].tab
            /\ call'[d].live => call[d].live /\ call[d].tab # s.tab
        BY <1>1, <4>1, UnmountedInv
      <4>3. call'[d].live => tab'[call[d].tab].at = "console"
        BY <2>1, <4>2, LoadMounted DEF IInv, TypeOK
      <4> QED BY <1>4, <4>2, <4>3, OldLoadSound
    <3> QED BY <3>1, <3>2
  <2> QED BY <2>3, <2>4, <2>5 DEF IInv
<1> QED BY <1>5, <1>6

LEMMA Inductive == IInv /\ [Next]_vars => IInv'
<1> SUFFICES ASSUME IInv, [Next]_vars PROVE IInv'
  OBVIOUS
<1>1. CASE UNCHANGED vars
  BY <1>1 DEF vars, IInv, TypeOK, PairConsistent, LoadsSound, LoadSound, Genuine
<1>2. ASSUME NEW t \in Tabs, OpenLogin(t) \/ Reload(t) PROVE IInv'
  BY <1>2, OpenLoginKeeps, ReloadKeeps
<1>3. ASSUME NEW t \in Tabs, NEW c \in Calls,
             Mount(t, c) \/ Retry(t, c) \/ SignOut(t, c) \/ PageRequest(t, c)
      PROVE  IInv'
  BY <1>3, MountKeeps, RetryKeeps, RequestsKeep
<1>4. ASSUME NEW t \in Tabs, NEW c \in Calls, NEW user \in Users, Submit(t, c, user)
      PROVE  IInv'
  BY <1>4, SubmitKeeps
<1>5. ASSUME NEW c \in Calls, Receive(c) PROVE IInv'
  BY <1>5, ReceiveMeKeeps, ReceivePageKeeps, LoginRefusedKeeps, ReceiveLogoutKeeps DEF Receive
<1>6. ASSUME NEW c \in Calls, LoginAccepted(c) PROVE IInv'
  BY <1>6, LoginAcceptedKeeps
<1>7. ASSUME NEW k \in DOMAIN issuedTo, Expire(k) PROVE IInv'
  BY <1>7, ExpireKeeps
<1> QED BY <1>1, <1>2, <1>3, <1>4, <1>5, <1>6, <1>7 DEF Next

(* Every variable keeps its type, whatever overlaps.                       *)
THEOREM TypeCorrect == Spec => []TypeOK
<1>1. IInv => TypeOK
  BY DEF IInv
<1> QED BY Initially, Inductive, <1>1, PTL DEF Spec

(* A token is never paired with another user than the one it was issued    *)
(* to, in the storage or on any screen.                                    *)
THEOREM PairsConsistent == Spec => []PairConsistent
<1>1. IInv => PairConsistent
  BY DEF IInv
<1> QED BY Initially, Inductive, <1>1, PTL DEF Spec
-----------------------------------------------------------------------------
(* PackageEditor                                                           *)

LEMMA Least ==
    ASSUME NEW T, T \subseteq Nat, T # {}
    PROVE  \E m \in T : \A n \in T : m <= n
<1> DEFINE less == OpToRel(<, Nat)
<1>1. IsWellFoundedOn(less, Nat)
  BY NatLessThanWellFounded
<1>2. \E m \in T : \A n \in T : ~(<<n, m>> \in less)
  <2> HIDE DEF less
  <2>1. QED BY <1>1, WFMin
<1>3. PICK m \in T : \A n \in T : ~(<<n, m>> \in less)
  BY <1>2
<1>4. \A n \in T : ~(n < m)
  BY <1>3 DEF OpToRel
<1> QED BY <1>4

-----------------------------------------------------------------------------
(* What a filter leaves: the recursion of Kept, unrolled.                  *)

Keeps(kept, n, s, I) ==
    kept = [k \in 0..n |-> IF k = 0 THEN <<>>
                           ELSE IF k \in I THEN Append(kept[k - 1], s[k]) ELSE kept[k - 1]]

LEMMA KeepsUpTo ==
    ASSUME NEW s, NEW I, NEW n \in Nat
    PROVE  \E kept : Keeps(kept, n, s, I)
<1> SUFFICES ASSUME ~\E kept : Keeps(kept, n, s, I) PROVE FALSE
  OBVIOUS
<1> DEFINE T == {m \in Nat : ~\E kept : Keeps(kept, m, s, I)}
<1>1. PICK m \in T : \A k \in T : m <= k
  <2>1. T \subseteq Nat /\ T # {}
    OBVIOUS
  <2> HIDE DEF T
  <2>2. QED BY <2>1, Least
<1>2. m \in Nat /\ ~\E kept : Keeps(kept, m, s, I)
  BY <1>1
<1>3. CASE m = 0
  <2>1. Keeps([k \in 0..0 |-> <<>>], 0, s, I)
    BY DEF Keeps
  <2> QED BY <1>2, <1>3, <2>1
<1>4. CASE m # 0
  <2>1. m - 1 \in Nat /\ m - 1 \notin T
    BY <1>1, <1>2, <1>4
  <2>2. PICK kept : Keeps(kept, m - 1, s, I)
    BY <2>1
  <2> DEFINE next == [k \in 0..m |-> IF k = 0 THEN <<>>
                                     ELSE IF k \in I THEN Append(kept[k - 1], s[k]) ELSE kept[k - 1]]
  <2>3. ASSUME NEW k \in 0..(m - 1) PROVE next[k] = kept[k]
    <3>1. k \in 0..m
      BY <1>2
    <3>2. kept[k] = IF k = 0 THEN <<>>
                    ELSE IF k \in I THEN Append(kept[k - 1], s[k]) ELSE kept[k - 1]
      BY <2>2, <2>3 DEF Keeps
    <3> QED BY <3>1, <3>2
  <2>4. \A k \in 0..m : k # 0 => k - 1 \in 0..(m - 1)
    BY <1>2
  <2>5. \A k \in 0..m : next[k] = IF k = 0 THEN <<>>
                                  ELSE IF k \in I THEN Append(next[k - 1], s[k]) ELSE next[k - 1]
    BY <2>3, <2>4
  <2>6. Keeps(next, m, s, I)
    BY <2>5 DEF Keeps
  <2> QED BY <1>2, <2>6
<1> QED BY <1>3, <1>4

(* What is left of s comes from the places in I.                           *)
From(r, s, I) == \A i \in DOMAIN r : \E j \in I \cap DOMAIN s : r[i] = s[j]

(* Each of the first n that is at a place in I is left.                    *)
Left(r, s, I, n) == \A j \in I \cap (1..n) : \E i \in DOMAIN r : r[i] = s[j]

LEMMA KeptFrom ==
    ASSUME NEW T, NEW s \in Seq(T), NEW I
    PROVE  /\ Kept(s, I) \in Seq(T)
           /\ From(Kept(s, I), s, I)
           /\ Left(Kept(s, I), s, I, Len(s))
<1> DEFINE f == CHOOSE kept : kept = [k \in 0..Len(s) |-> IF k = 0 THEN <<>>
                         ELSE IF k \in I THEN Append(kept[k - 1], s[k]) ELSE kept[k - 1]]
<1>1. Kept(s, I) = IF DOMAIN s \subseteq I THEN s ELSE f[Len(s)]
  BY DEF Kept
<1>2. Len(s) \in Nat /\ DOMAIN s = 1..Len(s)
  OBVIOUS
<1>3. Keeps(f, Len(s), s, I)
  <2>1. \E kept : Keeps(kept, Len(s), s, I)
    BY <1>2, KeepsUpTo
  <2> QED BY <2>1 DEF Keeps
<1> HIDE DEF f
<1> DEFINE Good(k) == f[k] \in Seq(T) /\ From(f[k], s, I) /\ Left(f[k], s, I, k)
           Bad == {k \in 0..Len(s) : ~Good(k)}
<1>4. Bad = {}
  <2> SUFFICES ASSUME Bad # {} PROVE FALSE
    OBVIOUS
  <2>1. PICK m \in Bad : \A k \in Bad : m <= k
    <3>1. Bad \subseteq Nat
      BY <1>2
    <3> HIDE DEF Bad
    <3>2. QED BY <3>1, Least
  <2>2. m \in 0..Len(s) /\ ~Good(m)
    BY <2>1
  <2>3. f[m] = IF m = 0 THEN <<>> ELSE IF m \in I THEN Append(f[m - 1], s[m]) ELSE f[m - 1]
    BY <1>3, <2>2 DEF Keeps
  <2>4. CASE m = 0
    BY <2>2, <2>3, <2>4 DEF From, Left
  <2>5. CASE m # 0
    <3>1. m - 1 \in 0..Len(s) /\ m - 1 \notin Bad /\ m \in DOMAIN s
      BY <1>2, <2>1, <2>2, <2>5
    <3>2. Good(m - 1)
      BY <3>1
    <3>3. CASE m \in I
      <4> DEFINE g == f[m - 1]
      <4>1. g \in Seq(T) /\ From(g, s, I) /\ Left(g, s, I, m - 1) /\ s[m] \in T
        BY <3>1, <3>2
      <4> HIDE DEF g
      <4>2. Append(g, s[m]) \in Seq(T)
        BY <4>1
      <4>3. From(Append(g, s[m]), s, I)
        <5> SUFFICES ASSUME NEW i \in DOMAIN Append(g, s[m])
                     PROVE  \E j \in I \cap DOMAIN s : Append(g, s[m])[i] = s[j]
          BY DEF From
        <5>1. (i \in DOMAIN g /\ Append(g, s[m])[i] = g[i]) \/ Append(g, s[m])[i] = s[m]
          BY <4>1
        <5> QED BY <3>1, <3>3, <4>1, <5>1 DEF From
      <4>4. f[m] = Append(g, s[m])
        BY <2>3, <2>5, <3>3 DEF g
      <4>5. Left(Append(g, s[m]), s, I, m)
        <5> SUFFICES ASSUME NEW j \in I \cap (1..m)
                     PROVE  \E i \in DOMAIN Append(g, s[m]) : Append(g, s[m])[i] = s[j]
          BY DEF Left
        <5>1. CASE j = m
          <6>1. /\ Len(g) + 1 \in DOMAIN Append(g, s[m])
                /\ Append(g, s[m])[Len(g) + 1] = s[m]
            BY <4>1
          <6> QED BY <5>1, <6>1
        <5>2. CASE j # m
          <6>1. j \in I \cap (1..(m - 1))
            BY <2>2, <5>2
          <6>2. PICK i \in DOMAIN g : g[i] = s[j]
            BY <4>1, <6>1 DEF Left
          <6>3. i \in DOMAIN Append(g, s[m]) /\ Append(g, s[m])[i] = g[i]
            BY <4>1
          <6> QED BY <6>2, <6>3
        <5> QED BY <5>1, <5>2
      <4> QED BY <2>2, <4>2, <4>3, <4>4, <4>5
    <3>4. CASE m \notin I
      <4>1. f[m] = f[m - 1]
        BY <2>3, <2>5, <3>4
      <4>2. \A j \in I \cap (1..m) : j \in I \cap (1..(m - 1))
        BY <2>2, <3>4
      <4>3. Left(f[m], s, I, m)
        BY <3>2, <4>1, <4>2 DEF Left
      <4> QED BY <2>2, <3>2, <4>1, <4>3
    <3> QED BY <3>3, <3>4
  <2> QED BY <2>4, <2>5
<1>5. Good(Len(s))
  BY <1>2, <1>4
<1>6. DOMAIN s \subseteq I => From(s, s, I) /\ Left(s, s, I, Len(s))
  BY <1>2 DEF From, Left
<1> QED BY <1>1, <1>5, <1>6

LEMMA LowestIsIn ==
    ASSUME NEW S, S \subseteq Nat, S # {}
    PROVE  Lowest(S) \in S
BY Least DEF Lowest

(* The selection stands for nothing only where there is nothing.           *)
LEMMA PickIn ==
    ASSUME NEW T, NEW all \in Seq(T), NEW named, named \subseteq DOMAIN all
    PROVE  /\ Pick(named, all) = 0 <=> all = <<>>
           /\ Pick(named, all) # 0 => Pick(named, all) \in DOMAIN all
<1>1. DOMAIN all \subseteq Nat \ {0}
  OBVIOUS
<1>2. all # <<>> => 1 \in DOMAIN all
  OBVIOUS
<1>3. all = <<>> => DOMAIN all = {}
  OBVIOUS
<1>4. named # {} => Lowest(named) \in named
  <2>1. named \subseteq Nat
    BY <1>1
  <2> QED BY <2>1, LowestIsIn
<1> QED BY <1>1, <1>2, <1>3, <1>4 DEF Pick
-----------------------------------------------------------------------------
(* APIOntologyPackage and their parts.                                              *)

LEMMA SeqOf ==
    ASSUME NEW s, NEW T
    PROVE  s \in Seq(T) <=> /\ s = [i \in DOMAIN s |-> s[i]]
                            /\ \E n \in Nat : DOMAIN s = 1..n
                            /\ \A i \in DOMAIN s : s[i] \in T
<1>1. ASSUME s \in Seq(T)
      PROVE  /\ s = [i \in DOMAIN s |-> s[i]]
             /\ \E n \in Nat : DOMAIN s = 1..n
             /\ \A i \in DOMAIN s : s[i] \in T
  BY <1>1
<1>2. ASSUME /\ s = [i \in DOMAIN s |-> s[i]]
             /\ \E n \in Nat : DOMAIN s = 1..n
             /\ \A i \in DOMAIN s : s[i] \in T
      PROVE  s \in Seq(T)
  <2>1. PICK n \in Nat : DOMAIN s = 1..n
    BY <1>2
  <2>2. s \in [1..n -> T]
    BY <1>2, <2>1
  <2> QED BY <2>1, <2>2
<1> QED BY <1>1, <1>2

LEMMA MappedTyped ==
    ASSUME NEW T, NEW U, NEW s \in Seq(T), NEW r, r = [i \in DOMAIN s |-> r[i]],
           \A i \in DOMAIN s : r[i] \in U
    PROVE  r \in Seq(U) /\ DOMAIN r = DOMAIN s /\ (r = <<>> <=> s = <<>>)
<1>1. PICK n \in Nat : DOMAIN s = 1..n
  BY SeqOf
<1>2. DOMAIN r = DOMAIN s
  OBVIOUS
<1>3. r \in Seq(U)
  BY <1>1, <1>2, SeqOf
<1> QED BY <1>2, <1>3, EmptySeq

(* The parts of a package.                                                 *)
LEMMA PartsOf ==
    ASSUME NEW p \in APIOntologyPackage
    PROVE  /\ p.modules \in Seq(APIOntologyModule)
           /\ p.workflows \in Seq(APIOntologyWorkflowDefinition)
           /\ \A modules \in Seq(APIOntologyModule), workflows \in Seq(APIOntologyWorkflowDefinition) :
                /\ [modules |-> modules, workflows |-> workflows] \in APIOntologyPackage
                /\ [p EXCEPT !.modules = modules] \in APIOntologyPackage
                /\ [p EXCEPT !.workflows = workflows] \in APIOntologyPackage
           /\ \A i \in DOMAIN p.modules : p.modules[i] \in APIOntologyModule
           /\ \A i \in DOMAIN p.workflows : p.workflows[i] \in APIOntologyWorkflowDefinition
<1>1. p = [modules |-> p.modules, workflows |-> p.workflows]
      /\ p.modules \in Seq(APIOntologyModule) /\ p.workflows \in Seq(APIOntologyWorkflowDefinition)
  BY DEF APIOntologyPackage
<1>2. \A i \in DOMAIN p.modules : p.modules[i] \in APIOntologyModule
  BY <1>1
<1>3. \A i \in DOMAIN p.workflows : p.workflows[i] \in APIOntologyWorkflowDefinition
  BY <1>1
<1> QED BY <1>1, <1>2, <1>3 DEF APIOntologyPackage

LEMMA PartsOfModule ==
    ASSUME NEW m \in APIOntologyModule
    PROVE  /\ m.module_key \in Name
           /\ m.entries \in Seq(APIOntologyEntry)
           /\ \A entries \in Seq(APIOntologyEntry) :
                [m EXCEPT !.entries = entries] \in APIOntologyModule
           /\ \A i \in DOMAIN m.entries : /\ m.entries[i] \in APIOntologyEntry
                                          /\ m.entries[i].entry_id \in Name
<1>1. m.module_key \in Name /\ m.entries \in Seq(APIOntologyEntry)
      /\ m = [module_key |-> m.module_key, entries |-> m.entries]
  BY DEF APIOntologyModule
<1>2. ASSUME NEW entries \in Seq(APIOntologyEntry)
      PROVE  [m EXCEPT !.entries = entries] \in APIOntologyModule
  BY <1>1 DEF APIOntologyModule
<1>3. \A i \in DOMAIN m.entries : m.entries[i] \in APIOntologyEntry
  BY <1>1
<1> QED BY <1>1, <1>2, <1>3 DEF APIOntologyEntry

LEMMA PartsOfWorkflow ==
    ASSUME NEW w \in APIOntologyWorkflowDefinition
    PROVE  /\ w = [workflow_key |-> w.workflow_key,
                   participant_entry_ids |-> w.participant_entry_ids,
                   relationship_edges |-> w.relationship_edges, intent_rules |-> w.intent_rules]
           /\ w.workflow_key \in Name
           /\ w.participant_entry_ids \in Seq(Name)
           /\ w.relationship_edges \in Seq(APIOntologyWorkflowEdge)
           /\ w.intent_rules \in Seq(APIOntologyIntentRule)
BY DEF APIOntologyWorkflowDefinition
-----------------------------------------------------------------------------
(* What the parser leaves of a package is one.                             *)

LEMMA ModuleParsed ==
    ASSUME NEW m \in APIOntologyModule
    PROVE  ParseApiModule(m) \in APIOntologyModule
<1> DEFINE left == Kept(m.entries, {i \in DOMAIN m.entries : m.entries[i].api_named})
<1>1. left \in Seq(APIOntologyEntry)
  BY PartsOfModule, KeptFrom
<1>2. ParseApiModule(m) = [m EXCEPT !.entries = left]
  BY DEF ParseApiModule, APIOntologyModule
<1> HIDE DEF left
<1> QED BY <1>1, <1>2, PartsOfModule

LEMMA WorkflowParsed ==
    ASSUME NEW w \in APIOntologyWorkflowDefinition
    PROVE  ParseWorkflow(w) \in APIOntologyWorkflowDefinition
<1> DEFINE edges == Kept(w.relationship_edges,
                         {i \in DOMAIN w.relationship_edges : ParseWorkflowEdge(w.relationship_edges[i])})
           rules == Kept(w.intent_rules,
                         {i \in DOMAIN w.intent_rules : ParseIntentRule(w.intent_rules[i])})
<1>1. edges \in Seq(APIOntologyWorkflowEdge) /\ rules \in Seq(APIOntologyIntentRule)
  BY PartsOfWorkflow, KeptFrom
<1>2. ParseWorkflow(w) = [w EXCEPT !.relationship_edges = edges, !.intent_rules = rules]
  BY DEF ParseWorkflow, APIOntologyWorkflowDefinition
<1> HIDE DEF edges, rules
<1> QED BY <1>1, <1>2 DEF APIOntologyWorkflowDefinition

LEMMA Parsed ==
    ASSUME NEW p \in APIOntologyPackage
    PROVE  ParseApiOntologyPackage(p) \in APIOntologyPackage
<1> DEFINE modules == Kept(p.modules, {i \in DOMAIN p.modules : p.modules[i].module_key # NoName})
           workflows == Kept(p.workflows,
                             {i \in DOMAIN p.workflows : p.workflows[i].workflow_key # NoName})
           ms == [i \in DOMAIN modules |-> ParseApiModule(modules[i])]
           ws == [i \in DOMAIN workflows |-> ParseWorkflow(workflows[i])]
<1>1. modules \in Seq(APIOntologyModule) /\ workflows \in Seq(APIOntologyWorkflowDefinition)
  BY PartsOf, KeptFrom
<1>2. ParseApiOntologyPackage(p) = [modules |-> ms, workflows |-> ws]
  BY DEF ParseApiOntologyPackage
<1> HIDE DEF modules, workflows
<1>3. ms \in Seq(APIOntologyModule)
  <2>1. \A i \in DOMAIN modules : ms[i] \in APIOntologyModule
    BY <1>1, ModuleParsed
  <2> QED BY <1>1, <2>1, MappedTyped
<1>4. ws \in Seq(APIOntologyWorkflowDefinition)
  <2>1. \A i \in DOMAIN workflows : ws[i] \in APIOntologyWorkflowDefinition
    BY <1>1, WorkflowParsed
  <2> QED BY <1>1, <2>1, MappedTyped
<1> HIDE DEF ms, ws
<1> QED BY <1>2, <1>3, <1>4, PartsOf
-----------------------------------------------------------------------------
(* The selection is moved to what is shown.                                *)

Shown(p, sel) ==
    /\ IF p.modules = <<>> THEN sel.module = NoName
       ELSE \E i \in DOMAIN p.modules : p.modules[i].module_key = sel.module
    /\ sel.entry # NoName => sel.entry \in AvailableEntryIds(p)
    /\ IF p.workflows = <<>> THEN sel.workflow = NoName
       ELSE \E i \in DOMAIN p.workflows : p.workflows[i].workflow_key = sel.workflow

LEMMA NoNameForm == NoName \in Name
BY EditorAssumptions

LEMMA NameForm ==
    ASSUME NEW text \in Texts, NEW name \in Name, NEW n \in Nat
    PROVE  Plain(text) \in Name /\ Numbered(name, n) \in Name
<1>1. Plain(text) \in Name
  <2>1. <<>> \in Seq(Nat)
    OBVIOUS
  <2> QED BY <2>1 DEF Plain, Name
<1>2. Numbered(name, n) \in Name
  <2> DEFINE numbers == Append(name.numbers, n)
  <2>1. numbers \in Seq(Nat)
    BY DEF Name
  <2>2. Numbered(name, n) = [name EXCEPT !.numbers = numbers]
    BY DEF Numbered
  <2> HIDE DEF numbers
  <2> QED BY <2>1, <2>2 DEF Name
<1> QED BY <1>1, <1>2

LEMMA ModulePicked ==
    ASSUME NEW p \in APIOntologyPackage, NEW sel
    PROVE  /\ ModuleIn(p, sel) = 0 <=> p.modules = <<>>
           /\ ModuleIn(p, sel) # 0 => /\ ModuleIn(p, sel) \in DOMAIN p.modules
                                      /\ p.modules[ModuleIn(p, sel)] \in APIOntologyModule
<1> DEFINE named == {i \in DOMAIN p.modules : p.modules[i].module_key = sel.module}
<1>1. named \subseteq DOMAIN p.modules /\ p.modules \in Seq(APIOntologyModule)
  BY PartsOf
<1>2. ModuleIn(p, sel) = Pick(named, p.modules)
  BY DEF ModuleIn
<1> HIDE DEF named
<1> QED BY <1>1, <1>2, PickIn, PartsOf

LEMMA EntryPicked ==
    ASSUME NEW p \in APIOntologyPackage, NEW sel, EntryIn(p, sel) # 0
    PROVE  /\ ModuleIn(p, sel) # 0
           /\ EntryIn(p, sel) \in DOMAIN p.modules[ModuleIn(p, sel)].entries
<1>1. ModuleIn(p, sel) # 0
  BY DEF EntryIn
<1> DEFINE entries == p.modules[ModuleIn(p, sel)].entries
           named == {i \in DOMAIN entries : entries[i].entry_id = sel.entry}
<1>2. entries \in Seq(APIOntologyEntry)
  BY <1>1, ModulePicked, PartsOfModule
<1>3. EntryIn(p, sel) = Pick(named, entries)
  BY <1>1 DEF EntryIn
<1>4. named \subseteq DOMAIN entries
  OBVIOUS
<1> HIDE DEF named, entries
<1>5. EntryIn(p, sel) \in DOMAIN entries
  BY <1>2, <1>3, <1>4, PickIn
<1> QED BY <1>1, <1>5 DEF entries

LEMMA WorkflowPicked ==
    ASSUME NEW p \in APIOntologyPackage, NEW sel
    PROVE  /\ WorkflowIn(p, sel) = 0 <=> p.workflows = <<>>
           /\ WorkflowIn(p, sel) # 0 =>
                /\ WorkflowIn(p, sel) \in DOMAIN p.workflows
                /\ p.workflows[WorkflowIn(p, sel)] \in APIOntologyWorkflowDefinition
<1> DEFINE named == {i \in DOMAIN p.workflows : p.workflows[i].workflow_key = sel.workflow}
<1>1. named \subseteq DOMAIN p.workflows /\ p.workflows \in Seq(APIOntologyWorkflowDefinition)
  BY PartsOf
<1>2. WorkflowIn(p, sel) = Pick(named, p.workflows)
  BY DEF WorkflowIn
<1> HIDE DEF named
<1> QED BY <1>1, <1>2, PickIn, PartsOf

LEMMA EntryAvailable ==
    ASSUME NEW p \in APIOntologyPackage, NEW i \in DOMAIN p.modules, NEW j \in DOMAIN p.modules[i].entries
    PROVE  /\ p.modules[i].entries[j].entry_id \in Name
           /\ p.modules[i].entries[j].entry_id \in AvailableEntryIds(p)
BY PartsOf, PartsOfModule DEF AvailableEntryIds

LEMMA FirstEntryShown ==
    ASSUME NEW p \in APIOntologyPackage
    PROVE  /\ FirstEntryOf(p) \in Name
           /\ FirstEntryOf(p) = NoName \/ FirstEntryOf(p) \in AvailableEntryIds(p)
<1>1. CASE p.modules # <<>> /\ p.modules[1].entries # <<>>
  <2>1. 1 \in DOMAIN p.modules
    BY <1>1, PartsOf
  <2>2. 1 \in DOMAIN p.modules[1].entries
    BY <1>1, <2>1, PartsOf, PartsOfModule
  <2> QED BY <1>1, <2>1, <2>2, EntryAvailable DEF FirstEntryOf
<1>2. CASE ~(p.modules # <<>> /\ p.modules[1].entries # <<>>)
  BY <1>2, NoNameForm DEF FirstEntryOf
<1> QED BY <1>1, <1>2

Selection == [module : Name, entry : Name, workflow : Name]

LEMMA SettledShown ==
    ASSUME NEW p \in APIOntologyPackage, NEW sel
    PROVE  Settled(p, sel) \in Selection /\ Shown(p, Settled(p, sel))
<1> DEFINE m == ModuleIn(p, sel)
           e == EntryIn(p, sel)
           w == WorkflowIn(p, sel)
           s == Settled(p, sel)
<1>1. s = [module |-> IF m = 0 THEN NoName ELSE p.modules[m].module_key,
           entry |-> IF e = 0 THEN FirstEntryOf(p) ELSE p.modules[m].entries[e].entry_id,
           workflow |-> IF w = 0 THEN NoName ELSE p.workflows[w].workflow_key]
  BY DEF Settled
<1>2. /\ m = 0 <=> p.modules = <<>>
      /\ m # 0 => m \in DOMAIN p.modules /\ p.modules[m] \in APIOntologyModule
  BY ModulePicked
<1>3. e # 0 => m # 0 /\ e \in DOMAIN p.modules[m].entries
  BY EntryPicked
<1>4. /\ w = 0 <=> p.workflows = <<>>
      /\ w # 0 => w \in DOMAIN p.workflows /\ p.workflows[w] \in APIOntologyWorkflowDefinition
  BY WorkflowPicked
<1> HIDE DEF m, e, w, s
<1>5. s.module \in Name /\ IF p.modules = <<>> THEN s.module = NoName
                           ELSE \E i \in DOMAIN p.modules : p.modules[i].module_key = s.module
  BY <1>1, <1>2, PartsOfModule, NoNameForm
<1>6. s.entry \in Name /\ (s.entry # NoName => s.entry \in AvailableEntryIds(p))
  BY <1>1, <1>2, <1>3, EntryAvailable, FirstEntryShown
<1>7. s.workflow \in Name /\ IF p.workflows = <<>> THEN s.workflow = NoName
                             ELSE \E i \in DOMAIN p.workflows : p.workflows[i].workflow_key = s.workflow
  BY <1>1, <1>4, PartsOfWorkflow, NoNameForm
<1>8. s \in Selection
  BY <1>1, <1>5, <1>6, <1>7 DEF Selection
<1> QED BY <1>5, <1>6, <1>7, <1>8 DEF Shown, s
-----------------------------------------------------------------------------
(* Helpers of the edits                                                    *)

LEMMA WithoutGone ==
    ASSUME NEW ids \in Seq(Name), NEW gone
    PROVE  LET left == Without(ids, gone)
           IN  /\ left \in Seq(Name)
               /\ \A i \in DOMAIN left : left[i] \notin gone /\ \E k \in DOMAIN ids : left[i] = ids[k]
<1> DEFINE I == {i \in DOMAIN ids : ids[i] \notin gone}
           left == Kept(ids, I)
<1>1. left = Without(ids, gone)
  BY DEF Without
<1>2. left \in Seq(Name) /\ From(left, ids, I)
  BY KeptFrom
<1> HIDE DEF left
<1> QED BY <1>1, <1>2 DEF From

LEMMA RulesWithoutGone ==
    ASSUME NEW rules \in Seq(APIOntologyIntentRule), NEW gone
    PROVE  LET left == RulesWithout(rules, gone)
           IN  /\ left \in Seq(APIOntologyIntentRule)
               /\ \A i \in DOMAIN left : \A j \in DOMAIN left[i].observed_entry_ids :
                    /\ left[i].observed_entry_ids[j] \notin gone
                    /\ \E k \in DOMAIN rules : \E n \in DOMAIN rules[k].observed_entry_ids :
                         left[i].observed_entry_ids[j] = rules[k].observed_entry_ids[n]
<1> DEFINE cut == [i \in DOMAIN rules |->
                     [rules[i] EXCEPT !.observed_entry_ids = Without(rules[i].observed_entry_ids, gone)]]
           full == {i \in DOMAIN cut : cut[i].observed_entry_ids # <<>>}
           left == RulesWithout(rules, gone)
<1>1. ASSUME NEW i \in DOMAIN rules
      PROVE  /\ cut[i] \in APIOntologyIntentRule
             /\ \A j \in DOMAIN cut[i].observed_entry_ids :
                  /\ cut[i].observed_entry_ids[j] \notin gone
                  /\ \E n \in DOMAIN rules[i].observed_entry_ids :
                       cut[i].observed_entry_ids[j] = rules[i].observed_entry_ids[n]
  <2>1. rules[i] \in APIOntologyIntentRule
    OBVIOUS
  <2>2. rules[i].observed_entry_ids \in Seq(Name)
    BY <2>1 DEF APIOntologyIntentRule
  <2> DEFINE seen == Without(rules[i].observed_entry_ids, gone)
  <2>3. /\ seen \in Seq(Name)
        /\ \A j \in DOMAIN seen :
             seen[j] \notin gone /\ \E n \in DOMAIN rules[i].observed_entry_ids :
                                     seen[j] = rules[i].observed_entry_ids[n]
    BY <2>2, WithoutGone
  <2>4. cut[i] = [rules[i] EXCEPT !.observed_entry_ids = seen]
    OBVIOUS
  <2> HIDE DEF seen, cut
  <2>5. cut[i] \in APIOntologyIntentRule /\ cut[i].observed_entry_ids = seen
    BY <2>1, <2>3, <2>4 DEF APIOntologyIntentRule
  <2> QED BY <2>3, <2>5
<1>2. cut \in Seq(APIOntologyIntentRule) /\ DOMAIN cut = DOMAIN rules
  <2>1. cut = [i \in DOMAIN rules |-> cut[i]]
    OBVIOUS
  <2> HIDE DEF cut
  <2> QED BY <1>1, <2>1, MappedTyped
<1>3. left = Kept(cut, full)
  BY DEF RulesWithout
<1> HIDE DEF cut, left
<1>4. left \in Seq(APIOntologyIntentRule) /\ From(left, cut, full)
  BY <1>2, <1>3, KeptFrom
<1>5. ASSUME NEW i \in DOMAIN left, NEW j \in DOMAIN left[i].observed_entry_ids
      PROVE  /\ left[i].observed_entry_ids[j] \notin gone
             /\ \E k \in DOMAIN rules : \E n \in DOMAIN rules[k].observed_entry_ids :
                  left[i].observed_entry_ids[j] = rules[k].observed_entry_ids[n]
  <2>1. PICK k \in DOMAIN rules : left[i] = cut[k]
    BY <1>2, <1>4 DEF From
  <2> QED BY <1>1, <2>1
<1> QED BY <1>4, <1>5 DEF left

(* Where a workflow names an entry.                                        *)
Names(w, id) ==
    \/ \E i \in DOMAIN w.participant_entry_ids : id = w.participant_entry_ids[i]
    \/ \E i \in DOMAIN w.relationship_edges :
          id = w.relationship_edges[i].from_entry_id \/ id = w.relationship_edges[i].to_entry_id
    \/ \E i \in DOMAIN w.intent_rules : \E j \in DOMAIN w.intent_rules[i].observed_entry_ids :
          id = w.intent_rules[i].observed_entry_ids[j]

LEMMA ReferencesNamed ==
    ASSUME NEW w, NEW id
    PROVE  id \in References(w) <=> Names(w, id)
<1>1. ASSUME id \in References(w) PROVE Names(w, id)
  BY <1>1 DEF References, Names
<1>2. ASSUME Names(w, id) PROVE id \in References(w)
  <2>1. CASE \E i \in DOMAIN w.participant_entry_ids : id = w.participant_entry_ids[i]
    BY <2>1 DEF References
  <2>2. CASE \E i \in DOMAIN w.relationship_edges :
               \/ id = w.relationship_edges[i].from_entry_id
               \/ id = w.relationship_edges[i].to_entry_id
    <3>1. PICK i \in DOMAIN w.relationship_edges :
              id \in {w.relationship_edges[i].from_entry_id, w.relationship_edges[i].to_entry_id}
      BY <2>2
    <3> QED BY <3>1 DEF References
  <2>3. CASE \E i \in DOMAIN w.intent_rules : \E j \in DOMAIN w.intent_rules[i].observed_entry_ids :
               id = w.intent_rules[i].observed_entry_ids[j]
    <3>1. PICK i \in DOMAIN w.intent_rules :
              id \in {w.intent_rules[i].observed_entry_ids[j] :
                         j \in DOMAIN w.intent_rules[i].observed_entry_ids}
      BY <2>3
    <3> QED BY <3>1 DEF References
  <2> QED BY <1>2, <2>1, <2>2, <2>3 DEF Names
<1> QED BY <1>1, <1>2

LEMMA ReferencesRemoved ==
    ASSUME NEW w \in APIOntologyWorkflowDefinition, NEW gone
    PROVE  /\ RemoveEntryReferences(w, gone) \in APIOntologyWorkflowDefinition
           /\ References(RemoveEntryReferences(w, gone)) \subseteq References(w) \ gone
<1> DEFINE ids == Without(w.participant_entry_ids, gone)
           edges == EdgesWithout(w.relationship_edges, gone)
           rules == RulesWithout(w.intent_rules, gone)
           new == RemoveEntryReferences(w, gone)
<1>1. new = [w EXCEPT !.participant_entry_ids = ids, !.relationship_edges = edges,
                      !.intent_rules = rules]
  BY DEF RemoveEntryReferences
<1>2. /\ ids \in Seq(Name)
      /\ \A i \in DOMAIN ids : /\ ids[i] \notin gone
                               /\ \E k \in DOMAIN w.participant_entry_ids :
                                    ids[i] = w.participant_entry_ids[k]
  BY PartsOfWorkflow, WithoutGone
<1>3. /\ edges \in Seq(APIOntologyWorkflowEdge)
      /\ \A i \in DOMAIN edges : /\ edges[i].from_entry_id \notin gone
                                 /\ edges[i].to_entry_id \notin gone
                                 /\ \E k \in DOMAIN w.relationship_edges :
                                      edges[i] = w.relationship_edges[k]
  <2> DEFINE all == w.relationship_edges
             I == {i \in DOMAIN all : all[i].from_entry_id \notin gone /\ all[i].to_entry_id \notin gone}
  <2>1. edges = Kept(all, I)
    BY DEF EdgesWithout
  <2> HIDE DEF edges
  <2>2. all \in Seq(APIOntologyWorkflowEdge)
    BY PartsOfWorkflow
  <2>3. edges \in Seq(APIOntologyWorkflowEdge) /\ From(edges, all, I)
    BY <2>1, <2>2, KeptFrom
  <2> QED BY <2>3 DEF From
<1>4. /\ rules \in Seq(APIOntologyIntentRule)
      /\ \A i \in DOMAIN rules : \A j \in DOMAIN rules[i].observed_entry_ids :
           /\ rules[i].observed_entry_ids[j] \notin gone
           /\ \E k \in DOMAIN w.intent_rules : \E n \in DOMAIN w.intent_rules[k].observed_entry_ids :
                rules[i].observed_entry_ids[j] = w.intent_rules[k].observed_entry_ids[n]
  BY PartsOfWorkflow, RulesWithoutGone
<1> HIDE DEF ids, edges, rules, new
<1>5. /\ new \in APIOntologyWorkflowDefinition
      /\ new.participant_entry_ids = ids
      /\ new.relationship_edges = edges
      /\ new.intent_rules = rules
  BY <1>1, <1>2, <1>3, <1>4 DEF APIOntologyWorkflowDefinition
<1>6. ASSUME NEW id, Names(new, id) PROVE id \notin gone /\ Names(w, id)
  <2>1. CASE \E i \in DOMAIN ids : id = ids[i]
    BY <1>2, <2>1 DEF Names
  <2>2. CASE \E i \in DOMAIN edges : id = edges[i].from_entry_id \/ id = edges[i].to_entry_id
    BY <1>3, <2>2 DEF Names
  <2>3. CASE \E i \in DOMAIN rules : \E j \in DOMAIN rules[i].observed_entry_ids :
               id = rules[i].observed_entry_ids[j]
    BY <1>4, <2>3 DEF Names
  <2> QED BY <1>5, <1>6, <2>1, <2>2, <2>3 DEF Names
<1>7. References(new) \subseteq References(w) \ gone
  BY <1>6, ReferencesNamed
<1> QED BY <1>5, <1>7 DEF new

LEMMA CleanedOfGone ==
    ASSUME NEW ws \in Seq(APIOntologyWorkflowDefinition), NEW gone
    PROVE  /\ Cleaned(ws, gone) \in Seq(APIOntologyWorkflowDefinition)
           /\ DOMAIN Cleaned(ws, gone) = DOMAIN ws
           /\ \A i \in DOMAIN ws : References(Cleaned(ws, gone)[i]) \subseteq References(ws[i]) \ gone
<1>1. \A i \in DOMAIN ws :
         /\ RemoveEntryReferences(ws[i], gone) \in APIOntologyWorkflowDefinition
         /\ References(RemoveEntryReferences(ws[i], gone)) \subseteq References(ws[i]) \ gone
  BY ReferencesRemoved
<1> DEFINE r == Cleaned(ws, gone)
<1>2. r = [i \in DOMAIN ws |-> r[i]] /\ \A i \in DOMAIN ws : r[i] = RemoveEntryReferences(ws[i], gone)
  BY DEF Cleaned
<1> HIDE DEF r
<1>3. r \in Seq(APIOntologyWorkflowDefinition) /\ DOMAIN r = DOMAIN ws
  BY <1>1, <1>2, MappedTyped
<1> QED BY <1>1, <1>2, <1>3 DEF r

LEMMA CleanedReferences ==
    ASSUME NEW p, NEW q, NEW gone, p.workflows \in Seq(APIOntologyWorkflowDefinition),
           q.workflows = Cleaned(p.workflows, gone)
    PROVE  AllReferences(q) \subseteq AllReferences(p) \ gone
<1> SUFFICES ASSUME NEW id \in AllReferences(q) PROVE id \in AllReferences(p) /\ id \notin gone
  OBVIOUS
<1>1. PICK i \in DOMAIN q.workflows : id \in References(q.workflows[i])
  BY DEF AllReferences
<1>2. i \in DOMAIN p.workflows /\ id \in References(p.workflows[i]) \ gone
  BY <1>1, CleanedOfGone
<1> QED BY <1>2 DEF AllReferences

LEMMA RenamedTyped ==
    ASSUME NEW ids \in Seq(Name), NEW from, NEW to \in Name
    PROVE  RenamedAll(ids, from, to) \in Seq(Name)
<1>1. \A i \in DOMAIN ids : RenamedAll(ids, from, to)[i] \in Name
  BY DEF RenamedAll, Renamed
<1>2. RenamedAll(ids, from, to) = [i \in DOMAIN ids |-> RenamedAll(ids, from, to)[i]]
  BY DEF RenamedAll
<1> QED BY <1>1, <1>2, MappedTyped

LEMMA EdgesRenamedTyped ==
    ASSUME NEW edges \in Seq(APIOntologyWorkflowEdge), NEW from, NEW to \in Name
    PROVE  EdgesRenamed(edges, from, to) \in Seq(APIOntologyWorkflowEdge)
<1> DEFINE r == EdgesRenamed(edges, from, to)
<1>1. r = [i \in DOMAIN edges |-> r[i]]
  BY DEF EdgesRenamed
<1>2. ASSUME NEW i \in DOMAIN edges PROVE r[i] \in APIOntologyWorkflowEdge
  <2>1. edges[i] \in APIOntologyWorkflowEdge
    OBVIOUS
  <2>2. /\ Renamed(edges[i].from_entry_id, from, to) \in Name
        /\ Renamed(edges[i].to_entry_id, from, to) \in Name
    BY <2>1 DEF Renamed, APIOntologyWorkflowEdge
  <2> QED BY <2>2 DEF EdgesRenamed, APIOntologyWorkflowEdge
<1> HIDE DEF r
<1>3. r \in Seq(APIOntologyWorkflowEdge)
  BY <1>1, <1>2, MappedTyped
<1> QED BY <1>3 DEF r

LEMMA RulesRenamedTyped ==
    ASSUME NEW rules \in Seq(APIOntologyIntentRule), NEW from, NEW to \in Name
    PROVE  RulesRenamed(rules, from, to) \in Seq(APIOntologyIntentRule)
<1> DEFINE r == RulesRenamed(rules, from, to)
<1>1. r = [i \in DOMAIN rules |-> r[i]]
  BY DEF RulesRenamed
<1>2. ASSUME NEW i \in DOMAIN rules PROVE r[i] \in APIOntologyIntentRule
  <2> DEFINE seen == RenamedAll(rules[i].observed_entry_ids, from, to)
  <2>0. rules[i] \in APIOntologyIntentRule
    OBVIOUS
  <2>1. rules[i] \in APIOntologyIntentRule /\ seen \in Seq(Name)
    BY <2>0, RenamedTyped DEF APIOntologyIntentRule
  <2>2. r[i] = [rules[i] EXCEPT !.observed_entry_ids = seen]
    BY DEF RulesRenamed
  <2> HIDE DEF seen, r
  <2> QED BY <2>1, <2>2 DEF APIOntologyIntentRule
<1> HIDE DEF r
<1>3. r \in Seq(APIOntologyIntentRule)
  BY <1>1, <1>2, MappedTyped
<1> QED BY <1>3 DEF r

LEMMA ReplacedTyped ==
    ASSUME NEW w \in APIOntologyWorkflowDefinition, NEW from, NEW to \in Name
    PROVE  ReplaceEntryId(w, from, to) \in APIOntologyWorkflowDefinition
<1> DEFINE ids == RenamedAll(w.participant_entry_ids, from, to)
           edges == EdgesRenamed(w.relationship_edges, from, to)
           rules == RulesRenamed(w.intent_rules, from, to)
<1>1. ReplaceEntryId(w, from, to)
      = [w EXCEPT !.participant_entry_ids = ids, !.relationship_edges = edges,
                  !.intent_rules = rules]
  BY DEF ReplaceEntryId
<1>2. /\ ids \in Seq(Name)
      /\ edges \in Seq(APIOntologyWorkflowEdge)
      /\ rules \in Seq(APIOntologyIntentRule)
  BY PartsOfWorkflow, RenamedTyped, EdgesRenamedTyped, RulesRenamedTyped
<1> HIDE DEF ids, edges, rules
<1> QED BY <1>1, <1>2 DEF APIOntologyWorkflowDefinition

LEMMA EditedTyped ==
    ASSUME NEW T, NEW list \in Seq(T), NEW fresh, fresh \subseteq T,
           NEW changes, \A i \in DOMAIN list : changes[i] \subseteq T
    PROVE  Edited(list, fresh, changes) \subseteq Seq(T)
<1> SUFFICES ASSUME NEW r \in Edited(list, fresh, changes) PROVE r \in Seq(T)
  OBVIOUS
<1>1. CASE \E x \in fresh : r = Append(list, x)
  BY <1>1
<1>2. CASE \E i \in DOMAIN list : \E x \in changes[i] : r = [list EXCEPT ![i] = x]
  <2>1. PICK i \in DOMAIN list, x \in T : r = [list EXCEPT ![i] = x]
    BY <1>2
  <2>2. i \in 1..Len(list)
    BY <2>1
  <2> QED BY <2>1, <2>2, ExceptSeq
<1>3. CASE \E i \in DOMAIN list : r = Kept(list, DOMAIN list \ {i})
  BY <1>3, KeptFrom
<1> QED BY <1>1, <1>2, <1>3 DEF Edited
-----------------------------------------------------------------------------
(* The steps                                                               *)

EditorInv == EditorTypeOK /\ SelectionShown

LEMMA InvForm ==
    EditorInv <=> /\ saved \in APIOntologyPackage /\ editor \in APIOntologyPackage /\ source \in APIOntologyPackage
                  /\ selected \in Selection /\ edits \in 0..MaxEdits
                  /\ Shown(Draft, selected)
<1>1. EditorTypeOK <=> /\ saved \in APIOntologyPackage /\ editor \in APIOntologyPackage
                       /\ source \in APIOntologyPackage
                       /\ selected \in Selection /\ edits \in 0..MaxEdits
  BY DEF EditorTypeOK, Selection
<1>2. SelectionShown = Shown(Draft, selected)
  BY DEF SelectionShown, Shown
<1>3. EditorInv = (EditorTypeOK /\ Shown(Draft, selected))
  BY <1>2 DEF EditorInv
<1> QED BY <1>1, <1>3

LEMMA DraftTyped ==
    ASSUME EditorInv
    PROVE  Draft \in APIOntologyPackage
BY InvForm, Parsed DEF Draft

(* Whatever the selection was to be, it is moved to what the source shows. *)
LEMMA MovedKeeps ==
    ASSUME saved' \in APIOntologyPackage, editor' \in APIOntologyPackage, source' \in APIOntologyPackage,
           edits' \in 0..MaxEdits,
           NEW sel, selected' = Settled(ParseApiOntologyPackage(source'), sel)
    PROVE  EditorInv'
<1>1. Draft' = ParseApiOntologyPackage(source') /\ Draft' \in APIOntologyPackage
  BY Parsed DEF Draft
<1>2. selected' \in Selection /\ Shown(Draft', selected')
  BY <1>1, SettledShown
<1>3. EditorTypeOK'
  BY <1>2 DEF EditorTypeOK, Selection
<1>4. SelectionShown'
  BY <1>2 DEF SelectionShown, Shown, AvailableEntryIds
<1> QED BY <1>3, <1>4 DEF EditorInv

LEMMA ChangeTyped ==
    ASSUME EditorInv, Change
    PROVE  saved' \in APIOntologyPackage /\ edits' \in 0..MaxEdits
<1>1. saved \in APIOntologyPackage /\ edits \in 0..MaxEdits
  BY InvForm
<1>2. edits < MaxEdits /\ edits' = edits + 1 /\ saved' = saved
  BY DEF Change
<1>3. MaxEdits \in Nat
  BY EditorAssumptions
<1> QED BY <1>1, <1>2, <1>3

LEMMA UpdateKeeps ==
    ASSUME EditorInv, NEW package \in APIOntologyPackage, NEW sel, UpdatePackage(package, sel)
    PROVE  EditorInv'
BY ChangeTyped, MovedKeeps DEF UpdatePackage
LEMMA AddModuleKeeps == ASSUME EditorInv, AddModule PROVE EditorInv'
<1> DEFINE n == Len(Draft.modules) + 1
           module == DefaultApiModule(n)
           package == [Draft EXCEPT !.modules = Append(@, module)]
<1>1. Draft \in APIOntologyPackage /\ Draft.modules \in Seq(APIOntologyModule)
  BY DraftTyped, PartsOf
<1>2. module \in APIOntologyModule
  <2>1. n \in Nat
    BY <1>1
  <2> HIDE DEF n
  <2> DEFINE key == Numbered(Plain("module"), n)
  <2>2. key \in Name /\ Numbered(key, 1) \in Name
    BY <2>1, NameForm, EditorAssumptions
  <2>3. module = [module_key |-> key, entries |-> <<DefaultApiEntry(key, 1)>>]
    BY DEF DefaultApiModule
  <2> HIDE DEF key, module
  <2>4. DefaultApiEntry(key, 1) \in APIOntologyEntry
    BY <2>2 DEF DefaultApiEntry, APIOntologyEntry
  <2>5. <<DefaultApiEntry(key, 1)>> \in Seq(APIOntologyEntry)
    BY <2>4
  <2> QED BY <2>2, <2>3, <2>5 DEF APIOntologyModule
<1>3. package \in APIOntologyPackage
  <2> HIDE DEF module
  <2>1. Append(Draft.modules, module) \in Seq(APIOntologyModule)
    BY <1>1, <1>2
  <2> QED BY <1>1, <2>1, PartsOf
<1> QED BY <1>3, UpdateKeeps DEF AddModule

(* The module and the entry an edit is about.                              *)
LEMMA ShownModuleTyped ==
    ASSUME EditorInv, CurrentModule # 0
    PROVE  /\ CurrentModule \in DOMAIN Draft.modules
           /\ ShownModule \in APIOntologyModule
BY DraftTyped, ModulePicked DEF CurrentModule, ShownModule

LEMMA ShownEntryTyped ==
    ASSUME EditorInv, CurrentEntry # 0
    PROVE  /\ CurrentModule # 0
           /\ CurrentEntry \in DOMAIN ShownModule.entries
           /\ ShownEntry \in APIOntologyEntry
<1>1. CurrentModule # 0 /\ CurrentEntry \in DOMAIN ShownModule.entries
  BY DraftTyped, EntryPicked DEF CurrentModule, CurrentEntry, ShownModule
<1>2. ShownModule.entries \in Seq(APIOntologyEntry)
  BY <1>1, ShownModuleTyped, PartsOfModule
<1> QED BY <1>1, <1>2 DEF ShownEntry

LEMMA WithModuleTyped ==
    ASSUME EditorInv, CurrentModule # 0, NEW module \in APIOntologyModule
    PROVE  WithModule(module) \in APIOntologyPackage
<1> DEFINE modules == [Draft.modules EXCEPT ![CurrentModule] = module]
<1>1. Draft \in APIOntologyPackage /\ Draft.modules \in Seq(APIOntologyModule)
  BY DraftTyped, PartsOf
<1>2. CurrentModule \in 1..Len(Draft.modules)
  BY <1>1, ShownModuleTyped
<1>3. modules \in Seq(APIOntologyModule)
  BY <1>1, <1>2, ExceptSeq
<1>4. WithModule(module) = [Draft EXCEPT !.modules = modules]
  BY DEF WithModule
<1> HIDE DEF modules
<1> QED BY <1>1, <1>3, <1>4, PartsOf

LEMMA WithEntriesTyped ==
    ASSUME EditorInv, CurrentModule # 0, NEW entries \in Seq(APIOntologyEntry)
    PROVE  WithEntries(entries) \in APIOntologyPackage
BY ShownModuleTyped, PartsOfModule, WithModuleTyped DEF WithEntries

LEMMA WithEntryTyped ==
    ASSUME EditorInv, CurrentEntry # 0, NEW entry \in APIOntologyEntry
    PROVE  WithEntry(entry) \in APIOntologyPackage
<1>1. ShownModule.entries \in Seq(APIOntologyEntry) /\ CurrentModule # 0
  BY ShownEntryTyped, ShownModuleTyped, PartsOfModule
<1>2. CurrentEntry \in 1..Len(ShownModule.entries)
  BY <1>1, ShownEntryTyped
<1>3. [ShownModule.entries EXCEPT ![CurrentEntry] = entry] \in Seq(APIOntologyEntry)
  BY <1>1, <1>2, ExceptSeq
<1> QED BY <1>1, <1>3, WithEntriesTyped DEF WithEntry

LEMMA AddEntryKeeps == ASSUME EditorInv, AddEntry PROVE EditorInv'
<1> DEFINE key == ShownModule.module_key
           n == Len(ShownModule.entries) + 1
           entry == DefaultApiEntry(key, n)
           entries == Append(ShownModule.entries, entry)
<1>1. CurrentModule # 0
  BY DEF AddEntry
<1>2. key \in Name /\ ShownModule.entries \in Seq(APIOntologyEntry)
  BY <1>1, ShownModuleTyped, PartsOfModule
<1>3. entry \in APIOntologyEntry
  <2>1. n \in Nat
    BY <1>2
  <2> HIDE DEF n, key
  <2>2. Numbered(key, n) \in Name
    BY <1>2, <2>1, NameForm, EditorAssumptions
  <2> QED BY <1>2, <2>2 DEF DefaultApiEntry, APIOntologyEntry
<1>4. entries \in Seq(APIOntologyEntry)
  <2> HIDE DEF key, entry
  <2> QED BY <1>2, <1>3
<1>5. WithEntries(entries) \in APIOntologyPackage
  BY <1>1, <1>4, WithEntriesTyped
<1> QED BY <1>5, UpdateKeeps DEF AddEntry

(* The package a removal leaves.                                           *)
LEMMA RemoveModuleKeeps ==
    ASSUME EditorInv, RemoveModule
    PROVE  /\ EditorInv'
           /\ AllReferences(source') \subseteq
                AllReferences(Draft) \ {ShownModule.entries[j].entry_id : j \in DOMAIN ShownModule.entries}
<1> DEFINE modules == Draft.modules
           removed == modules[CurrentModule]
           rest == Kept(modules, {i \in DOMAIN modules : modules[i].module_key # removed.module_key})
           gone == {removed.entries[j].entry_id : j \in DOMAIN removed.entries}
           workflows == Cleaned(Draft.workflows, gone)
           package == [modules |-> rest, workflows |-> workflows]
           sel == [selected EXCEPT !.module = IF rest = <<>> THEN NoName ELSE rest[1].module_key,
                                   !.entry = FirstEntryOf(package)]
<1>1. CurrentModule # 0 /\ UpdatePackage(package, sel)
  BY DEF RemoveModule
<1>2. Draft \in APIOntologyPackage /\ modules \in Seq(APIOntologyModule)
      /\ Draft.workflows \in Seq(APIOntologyWorkflowDefinition)
  BY DraftTyped, PartsOf
<1>3. rest \in Seq(APIOntologyModule)
  BY <1>2, KeptFrom
<1>4. workflows \in Seq(APIOntologyWorkflowDefinition)
  BY <1>2, CleanedOfGone
<1>5. gone = {ShownModule.entries[j].entry_id : j \in DOMAIN ShownModule.entries}
  BY DEF ShownModule
<1>6. package.workflows = Cleaned(Draft.workflows, gone)
  OBVIOUS
<1>7. source' = package
  BY <1>1 DEF UpdatePackage
<1> HIDE DEF rest, workflows, sel, gone
<1>8. package \in APIOntologyPackage
  BY <1>2, <1>3, <1>4, PartsOf
<1> HIDE DEF package
<1>9. EditorInv'
  BY <1>1, <1>8, UpdateKeeps
<1>10. AllReferences(source') \subseteq AllReferences(Draft) \ gone
  BY <1>2, <1>6, <1>7, CleanedReferences
<1> QED BY <1>5, <1>9, <1>10

LEMMA RemoveEntryKeeps ==
    ASSUME EditorInv, RemoveEntry
    PROVE  /\ EditorInv'
           /\ AllReferences(source') \subseteq AllReferences(Draft) \ {ShownEntry.entry_id}
<1> DEFINE entries == ShownModule.entries
           id == ShownEntry.entry_id
           left == Kept(entries, {j \in DOMAIN entries : entries[j].entry_id # id})
           workflows == Cleaned(WithEntries(left).workflows, {id})
           package == [WithEntries(left) EXCEPT !.workflows = workflows]
           fallback == IF left # <<>> THEN left ELSE package.modules[1].entries
           sel == [selected EXCEPT
                     !.entry = IF fallback = <<>> THEN NoName ELSE fallback[1].entry_id,
                     !.module = IF fallback = <<>> THEN package.modules[1].module_key
                                ELSE fallback[1].module_key]
<1>1. CurrentEntry # 0 /\ UpdatePackage(package, sel)
  BY DEF RemoveEntry
<1>2. CurrentModule # 0 /\ entries \in Seq(APIOntologyEntry)
  BY <1>1, ShownEntryTyped, ShownModuleTyped, PartsOfModule
<1>3. left \in Seq(APIOntologyEntry)
  BY <1>2, KeptFrom
<1>4. source' = package
  BY <1>1 DEF UpdatePackage
<1> HIDE DEF left, sel
<1>5. WithEntries(left) \in APIOntologyPackage
  BY <1>2, <1>3, WithEntriesTyped
<1>6. WithEntries(left).workflows = Draft.workflows
  BY DraftTyped DEF WithEntries, WithModule, APIOntologyPackage
<1>7. workflows \in Seq(APIOntologyWorkflowDefinition) /\ workflows = Cleaned(Draft.workflows, {id})
  BY <1>5, <1>6, PartsOf, CleanedOfGone
<1> HIDE DEF workflows
<1>8. package \in APIOntologyPackage /\ package.workflows = workflows
  BY <1>5, <1>7, PartsOf DEF APIOntologyPackage
<1> HIDE DEF package
<1>9. EditorInv'
  BY <1>1, <1>8, UpdateKeeps
<1>10. AllReferences(source') \subseteq AllReferences(Draft) \ {id}
  BY <1>4, <1>7, <1>8, DraftTyped, PartsOf, CleanedReferences
<1> QED BY <1>9, <1>10

LEMMA AddWorkflowKeeps == ASSUME EditorInv, AddWorkflow PROVE EditorInv'
<1> DEFINE n == Len(Draft.workflows) + 1
           workflow == DefaultWorkflow(n)
           workflows == Append(Draft.workflows, workflow)
<1>1. Draft \in APIOntologyPackage /\ Draft.workflows \in Seq(APIOntologyWorkflowDefinition)
  BY DraftTyped, PartsOf
<1>2. workflow \in APIOntologyWorkflowDefinition
  <2>1. n \in Nat
    BY <1>1
  <2> HIDE DEF n
  <2> DEFINE ids == IF FirstEntryOf(Draft) = NoName THEN <<>> ELSE <<FirstEntryOf(Draft)>>
             key == Numbered(Plain("workflow"), n)
  <2>2. key \in Name
    BY <2>1, NameForm, EditorAssumptions
  <2>3. FirstEntryOf(Draft) \in Name
    BY <1>1, FirstEntryShown
  <2>4. ids \in Seq(Name)
    BY <2>3
  <2>5. workflow = [workflow_key |-> key, participant_entry_ids |-> ids,
                    relationship_edges |-> <<>>, intent_rules |-> <<>>]
    BY DEF DefaultWorkflow
  <2>6. <<>> \in Seq(APIOntologyWorkflowEdge) /\ <<>> \in Seq(APIOntologyIntentRule)
    OBVIOUS
  <2> HIDE DEF key, ids, workflow
  <2> QED BY <2>2, <2>4, <2>5, <2>6 DEF APIOntologyWorkflowDefinition
<1>3. [Draft EXCEPT !.workflows = workflows] \in APIOntologyPackage
  <2> HIDE DEF workflow
  <2>1. workflows \in Seq(APIOntologyWorkflowDefinition)
    BY <1>1, <1>2
  <2> QED BY <1>1, <2>1, PartsOf
<1> QED BY <1>3, UpdateKeeps DEF AddWorkflow

LEMMA RemoveWorkflowKeeps == ASSUME EditorInv, RemoveWorkflow PROVE EditorInv'
<1> DEFINE workflows == Draft.workflows
           key == workflows[CurrentWorkflow].workflow_key
           rest == Kept(workflows, {i \in DOMAIN workflows : workflows[i].workflow_key # key})
           package == [Draft EXCEPT !.workflows = rest]
<1>1. Draft \in APIOntologyPackage /\ workflows \in Seq(APIOntologyWorkflowDefinition)
  BY DraftTyped, PartsOf
<1>2. rest \in Seq(APIOntologyWorkflowDefinition)
  BY <1>1, KeptFrom
<1>3. package \in APIOntologyPackage
  <2> HIDE DEF rest
  <2> QED BY <1>1, <1>2, PartsOf
<1> QED BY <1>3, UpdateKeeps DEF RemoveWorkflow

LEMMA UpdateModuleKeyKeeps ==
    ASSUME EditorInv, NEW key \in Typed, UpdateModuleKey(key)
    PROVE  EditorInv'
<1> DEFINE entries == ShownModule.entries
           renamed == [j \in DOMAIN entries |-> [entries[j] EXCEPT !.module_key = key]]
           module == [module_key |-> key, entries |-> renamed]
<1>1. CurrentModule # 0 /\ key \in Name
  BY EditorAssumptions DEF UpdateModuleKey
<1>2. entries \in Seq(APIOntologyEntry)
  BY <1>1, ShownModuleTyped, PartsOfModule
<1>3. ASSUME NEW j \in DOMAIN entries PROVE renamed[j] \in APIOntologyEntry
  <2>1. entries[j] \in APIOntologyEntry
    BY <1>2
  <2> QED BY <1>1, <2>1 DEF APIOntologyEntry
<1>4. renamed \in Seq(APIOntologyEntry)
  <2>1. renamed = [j \in DOMAIN entries |-> renamed[j]]
    OBVIOUS
  <2> HIDE DEF renamed, entries
  <2> QED BY <1>2, <1>3, <2>1, MappedTyped
<1>5. module \in APIOntologyModule
  <2> HIDE DEF renamed
  <2> QED BY <1>1, <1>4 DEF APIOntologyModule
<1>6. WithModule(module) \in APIOntologyPackage
  BY <1>1, <1>5, WithModuleTyped
<1> QED BY <1>6, UpdateKeeps DEF UpdateModuleKey

LEMMA UpdateEntryIdKeeps ==
    ASSUME EditorInv, NEW id \in Typed, UpdateEntryId(id)
    PROVE  EditorInv'
<1> DEFINE entry == [ShownEntry EXCEPT !.entry_id = id]
           from == ShownEntry.entry_id
           old == WithEntry(entry).workflows
           new == [i \in DOMAIN old |-> ReplaceEntryId(old[i], from, id)]
           package == [WithEntry(entry) EXCEPT !.workflows = new]
<1>1. CurrentEntry # 0 /\ id \in Name
  BY EditorAssumptions DEF UpdateEntryId
<1>2. entry \in APIOntologyEntry
  BY <1>1, ShownEntryTyped DEF APIOntologyEntry
<1> HIDE DEF entry
<1>3. WithEntry(entry) \in APIOntologyPackage
  BY <1>1, <1>2, WithEntryTyped
<1>4. old \in Seq(APIOntologyWorkflowDefinition)
  BY <1>3, PartsOf
<1>5. new \in Seq(APIOntologyWorkflowDefinition)
  <2>1. \A i \in DOMAIN old : new[i] \in APIOntologyWorkflowDefinition
    BY <1>1, <1>4, ReplacedTyped
  <2>2. new = [i \in DOMAIN old |-> new[i]]
    OBVIOUS
  <2> HIDE DEF new, old
  <2> QED BY <1>4, <2>1, <2>2, MappedTyped
<1>6. package \in APIOntologyPackage
  <2> HIDE DEF new
  <2> QED BY <1>3, <1>5, PartsOf
<1>7. \E sel : UpdatePackage(package, sel)
  BY DEF UpdateEntryId, entry
<1> QED BY <1>6, <1>7, UpdateKeeps

LEMMA ClearApiNameKeeps == ASSUME EditorInv, ClearApiName PROVE EditorInv'
<1> DEFINE entry == [ShownEntry EXCEPT !.api_named = FALSE]
<1>1. CurrentEntry # 0 /\ UpdatePackage(WithEntry(entry), selected)
  BY DEF ClearApiName
<1>2. entry \in APIOntologyEntry
  BY <1>1, ShownEntryTyped DEF APIOntologyEntry
<1> HIDE DEF entry
<1> QED BY <1>1, <1>2, WithEntryTyped, UpdateKeeps
LEMMA UpdateOtherFieldKeeps == ASSUME EditorInv, UpdateOtherField PROVE EditorInv'
BY DraftTyped, UpdateKeeps DEF UpdateOtherField

LEMMA UpdateWorkflowKeeps ==
    ASSUME EditorInv, CurrentWorkflow # 0, NEW w \in APIOntologyWorkflowDefinition, UpdateWorkflow(w)
    PROVE  EditorInv'
<1> DEFINE workflows == [Draft.workflows EXCEPT ![CurrentWorkflow] = w]
           package == [Draft EXCEPT !.workflows[CurrentWorkflow] = w]
<1>1. Draft \in APIOntologyPackage /\ Draft.workflows \in Seq(APIOntologyWorkflowDefinition)
  BY DraftTyped, PartsOf
<1>2. CurrentWorkflow \in 1..Len(Draft.workflows)
  BY <1>1, WorkflowPicked DEF CurrentWorkflow
<1>3. workflows \in Seq(APIOntologyWorkflowDefinition)
  BY <1>1, <1>2, ExceptSeq
<1>4. package = [Draft EXCEPT !.workflows = workflows]
  OBVIOUS
<1>5. package \in APIOntologyPackage
  <2> HIDE DEF workflows, package
  <2> QED BY <1>1, <1>3, <1>4, PartsOf
<1> QED BY <1>5, UpdateKeeps DEF UpdateWorkflow

LEMMA AvailableTyped ==
    ASSUME NEW p \in APIOntologyPackage
    PROVE  AvailableEntryIds(p) \subseteq Name
<1> SUFFICES ASSUME NEW id \in AvailableEntryIds(p) PROVE id \in Name
  OBVIOUS
<1>1. PICK i \in DOMAIN p.modules : \E j \in DOMAIN p.modules[i].entries :
           id = p.modules[i].entries[j].entry_id
  BY DEF AvailableEntryIds
<1> QED BY <1>1, EntryAvailable

LEMMA EditedEdgesTyped ==
    ASSUME NEW edges \in Seq(APIOntologyWorkflowEdge), NEW ids \in Seq(Name),
           NEW ends, ends \subseteq Name
    PROVE  EditedEdges(edges, ids, ends) \subseteq Seq(APIOntologyWorkflowEdge)
<1> DEFINE fresh == {[from_entry_id |-> At(ids, 1),
                      to_entry_id |-> IF At(ids, 2) # NoName THEN At(ids, 2) ELSE At(ids, 1)]}
           changes == [i \in DOMAIN edges |-> {[edges[i] EXCEPT !.from_entry_id = id] : id \in ends}
                                              \cup {[edges[i] EXCEPT !.to_entry_id = id] : id \in ends}]
<1>1. EditedEdges(edges, ids, ends) = Edited(edges, fresh, changes)
  BY DEF EditedEdges
<1>2. fresh \subseteq APIOntologyWorkflowEdge
  <2>1. At(ids, 1) \in Name /\ At(ids, 2) \in Name
    BY NoNameForm DEF At
  <2> QED BY <2>1 DEF APIOntologyWorkflowEdge
<1>3. ASSUME NEW i \in DOMAIN edges PROVE changes[i] \subseteq APIOntologyWorkflowEdge
  <2>1. edges[i] \in APIOntologyWorkflowEdge
    OBVIOUS
  <2>2. \A id \in ends : /\ [edges[i] EXCEPT !.from_entry_id = id] \in APIOntologyWorkflowEdge
                         /\ [edges[i] EXCEPT !.to_entry_id = id] \in APIOntologyWorkflowEdge
    BY <2>1 DEF APIOntologyWorkflowEdge
  <2> QED BY <2>2
<1> HIDE DEF fresh, changes
<1> QED BY <1>1, <1>2, <1>3, EditedTyped

LEMMA EditedRulesTyped ==
    ASSUME NEW rules \in Seq(APIOntologyIntentRule), NEW ids \in Seq(Name),
           NEW typed, typed \subseteq Seq(Name)
    PROVE  EditedRules(rules, ids, typed) \subseteq Seq(APIOntologyIntentRule)
<1> DEFINE first == IF ids = <<>> THEN <<>> ELSE <<ids[1]>>
           fresh == {[observed_entry_ids |-> first, summarized |-> summarized] : summarized \in BOOLEAN}
           changes == [i \in DOMAIN rules |-> {[rules[i] EXCEPT !.observed_entry_ids = t] : t \in typed}
                                              \cup {[rules[i] EXCEPT !.summarized = FALSE]}]
<1>1. EditedRules(rules, ids, typed) = Edited(rules, fresh, changes)
  BY DEF EditedRules
<1>2. fresh \subseteq APIOntologyIntentRule
  <2>1. first \in Seq(Name)
    <3>1. CASE ids = <<>>
      BY <3>1
    <3>2. CASE ids # <<>>
      <4>1. ids[1] \in Name
        BY <3>2
      <4> QED BY <3>2, <4>1
    <3> QED BY <3>1, <3>2
  <2> HIDE DEF first
  <2> QED BY <2>1 DEF APIOntologyIntentRule
<1>3. ASSUME NEW i \in DOMAIN rules PROVE changes[i] \subseteq APIOntologyIntentRule
  <2>1. rules[i] \in APIOntologyIntentRule
    OBVIOUS
  <2>2. /\ [rules[i] EXCEPT !.summarized = FALSE] \in APIOntologyIntentRule
        /\ \A t \in typed : [rules[i] EXCEPT !.observed_entry_ids = t] \in APIOntologyIntentRule
    BY <2>1 DEF APIOntologyIntentRule
  <2> QED BY <2>2
<1> HIDE DEF fresh, changes
<1> QED BY <1>1, <1>2, <1>3, EditedTyped

LEMMA EditWorkflowKeeps == ASSUME EditorInv, EditWorkflow PROVE EditorInv'
<1> DEFINE workflow == Draft.workflows[CurrentWorkflow]
           ids == workflow.participant_entry_ids
           offered == AvailableEntryIds(Draft)
           named == (offered \cup Typed) \ {NoName}
           typed == {<<>>} \cup {<<id>> : id \in named}
           edges == EditedEdges(workflow.relationship_edges, ids, offered \cup {NoName})
           rules == EditedRules(workflow.intent_rules, ids, typed)
<1>1. CurrentWorkflow # 0
  BY DEF EditWorkflow
<1>2. workflow \in APIOntologyWorkflowDefinition
  BY <1>1, DraftTyped, WorkflowPicked DEF CurrentWorkflow
<1>3. offered \subseteq Name /\ offered \cup {NoName} \subseteq Name
  BY DraftTyped, AvailableTyped, NoNameForm
<1>4. typed \subseteq Seq(Name)
  <2>1. named \subseteq Name
    BY <1>3, EditorAssumptions
  <2> HIDE DEF named
  <2>2. \A id \in named : <<id>> \in Seq(Name)
    BY <2>1
  <2>3. <<>> \in Seq(Name)
    OBVIOUS
  <2>4. \A t \in typed : t = <<>> \/ \E id \in named : t = <<id>>
    OBVIOUS
  <2> HIDE DEF typed
  <2> QED BY <2>2, <2>3, <2>4
<1>5. edges \subseteq Seq(APIOntologyWorkflowEdge)
  BY <1>2, <1>3, PartsOfWorkflow, EditedEdgesTyped
<1>6. rules \subseteq Seq(APIOntologyIntentRule)
  <2> HIDE DEF typed
  <2> QED BY <1>2, <1>4, PartsOfWorkflow, EditedRulesTyped
<1>7. \E w : /\ UpdateWorkflow(w)
             /\ \/ \E key \in Typed : w = [workflow EXCEPT !.workflow_key = key]
                \/ \E t \in typed : w = [workflow EXCEPT !.participant_entry_ids = t]
                \/ \E list \in edges : w = [workflow EXCEPT !.relationship_edges = list]
                \/ \E list \in rules : w = [workflow EXCEPT !.intent_rules = list]
  BY DEF EditWorkflow
<1> HIDE DEF workflow, typed, edges, rules
<1>8. \A key \in Name, t \in Seq(Name), e \in Seq(APIOntologyWorkflowEdge), r \in Seq(APIOntologyIntentRule) :
        /\ [workflow EXCEPT !.workflow_key = key] \in APIOntologyWorkflowDefinition
        /\ [workflow EXCEPT !.participant_entry_ids = t] \in APIOntologyWorkflowDefinition
        /\ [workflow EXCEPT !.relationship_edges = e] \in APIOntologyWorkflowDefinition
        /\ [workflow EXCEPT !.intent_rules = r] \in APIOntologyWorkflowDefinition
  BY <1>2 DEF APIOntologyWorkflowDefinition
<1>9. PICK w : /\ UpdateWorkflow(w)
               /\ \/ \E key \in Typed : w = [workflow EXCEPT !.workflow_key = key]
                  \/ \E t \in typed : w = [workflow EXCEPT !.participant_entry_ids = t]
                  \/ \E list \in edges : w = [workflow EXCEPT !.relationship_edges = list]
                  \/ \E list \in rules : w = [workflow EXCEPT !.intent_rules = list]
  BY <1>7
<1>10. w \in APIOntologyWorkflowDefinition
  <2>1. CASE \E key \in Typed : w = [workflow EXCEPT !.workflow_key = key]
    BY <1>2, <2>1, EditorAssumptions DEF APIOntologyWorkflowDefinition
  <2>2. CASE \E t \in typed : w = [workflow EXCEPT !.participant_entry_ids = t]
    BY <1>2, <1>4, <2>2 DEF APIOntologyWorkflowDefinition
  <2>3. CASE \E list \in edges : w = [workflow EXCEPT !.relationship_edges = list]
    BY <1>2, <1>5, <2>3 DEF APIOntologyWorkflowDefinition
  <2>4. CASE \E list \in rules : w = [workflow EXCEPT !.intent_rules = list]
    BY <1>2, <1>6, <2>4 DEF APIOntologyWorkflowDefinition
  <2> QED BY <1>9, <2>1, <2>2, <2>3, <2>4
<1> QED BY <1>1, <1>9, <1>10, UpdateWorkflowKeeps

LEMMA SelectAnotherKeeps == ASSUME EditorInv, SelectAnother PROVE EditorInv'
<1>1. UNCHANGED <<saved, editor, source, edits>>
  BY DEF SelectAnother
<1>2. \E sel : selected' = Settled(Draft, sel)
  BY DEF SelectAnother, SelectModule, SelectEntry, SelectWorkflow
<1>3. Draft = ParseApiOntologyPackage(source')
  BY <1>1 DEF Draft
<1> QED BY <1>1, <1>2, <1>3, InvForm, MovedKeeps

LEMMA SaveDraftKeeps == ASSUME EditorInv, SaveDraft PROVE EditorInv'
BY InvForm, MovedKeeps DEF SaveDraft, Draft

LEMMA TypeSourceKeeps ==
    ASSUME EditorInv, NEW package \in StartPackages, TypeSource(package)
    PROVE  EditorInv'
<1>1. package \in APIOntologyPackage
  BY EditorAssumptions
<1>2. Change /\ editor' = editor /\ source' = package
      /\ selected' = Settled(ParseApiOntologyPackage(package), selected)
  BY DEF TypeSource
<1>3. saved' \in APIOntologyPackage /\ edits' \in 0..MaxEdits
  BY <1>2, ChangeTyped
<1> QED BY <1>1, <1>2, <1>3, InvForm, MovedKeeps

LEMMA ResetSourceKeeps == ASSUME EditorInv, ResetSource PROVE EditorInv'
BY InvForm, MovedKeeps DEF ResetSource

LEMMA EditorInitially == EditorInit => EditorInv
<1> SUFFICES ASSUME EditorInit PROVE EditorInv
  OBVIOUS
<1>1. saved \in APIOntologyPackage /\ editor \in APIOntologyPackage /\ source \in APIOntologyPackage
  BY EditorAssumptions DEF EditorInit
<1>2. Draft \in APIOntologyPackage
  BY <1>1, Parsed DEF Draft
<1>3. selected \in Selection /\ Shown(Draft, selected)
  BY <1>2, SettledShown DEF EditorInit
<1>4. edits \in 0..MaxEdits
  <2>1. MaxEdits \in Nat /\ edits = 0
    BY EditorAssumptions DEF EditorInit
  <2> QED BY <2>1
<1> QED BY <1>1, <1>3, <1>4, InvForm

LEMMA EditorInductive == EditorInv /\ [EditorNext]_editorVars => EditorInv'
<1> SUFFICES ASSUME EditorInv, [EditorNext]_editorVars PROVE EditorInv'
  OBVIOUS
<1>1. CASE UNCHANGED editorVars
  BY <1>1 DEF editorVars, EditorInv, EditorTypeOK, SelectionShown, Draft, AvailableEntryIds
<1>2. CASE AddModule \/ RemoveModule \/ AddEntry \/ RemoveEntry
  BY <1>2, AddModuleKeeps, RemoveModuleKeeps, AddEntryKeeps, RemoveEntryKeeps
<1>3. CASE AddWorkflow \/ RemoveWorkflow \/ EditWorkflow
  BY <1>3, AddWorkflowKeeps, RemoveWorkflowKeeps, EditWorkflowKeeps
<1>4. CASE \E name \in Typed : UpdateModuleKey(name) \/ UpdateEntryId(name)
  BY <1>4, UpdateModuleKeyKeeps, UpdateEntryIdKeeps
<1>5. CASE ClearApiName \/ UpdateOtherField
  BY <1>5, ClearApiNameKeeps, UpdateOtherFieldKeeps
<1>6. CASE SelectAnother \/ SaveDraft \/ ResetSource
  BY <1>6, SelectAnotherKeeps, SaveDraftKeeps, ResetSourceKeeps
<1>7. CASE \E package \in StartPackages : TypeSource(package)
  BY <1>7, TypeSourceKeeps
<1> QED BY <1>1, <1>2, <1>3, <1>4, <1>5, <1>6, <1>7 DEF EditorNext, EditAround

-----------------------------------------------------------------------------
(* What an edit does to the references: it leaves or adds only those to    *)
(* entries that are there, and takes no entry away from one it leaves.     *)

Refers(id, p, q) ==
    \/ id \in AvailableEntryIds(q)
    \/ /\ id \in AllReferences(p)
       /\ id \in AvailableEntryIds(p) => id \in AvailableEntryIds(q)

LEMMA NoneDangles ==
    ASSUME NEW p, NEW q, \A id \in AllReferences(q) : Refers(id, p, q)
    PROVE  Dangling(q) \subseteq Dangling(p)
BY DEF Refers, Dangling

LEMMA Available ==
    ASSUME NEW p, NEW id
    PROVE  id \in AvailableEntryIds(p) <=>
             \E i \in DOMAIN p.modules : \E j \in DOMAIN p.modules[i].entries :
               id = p.modules[i].entries[j].entry_id
BY DEF AvailableEntryIds

(* The modules beside the one that is edited stay.                         *)
LEMMA WithModuleAvailable ==
    ASSUME EditorInv, CurrentModule # 0, NEW module
    PROVE  /\ WithModule(module).workflows = Draft.workflows
           /\ \A j \in DOMAIN module.entries :
                module.entries[j].entry_id \in AvailableEntryIds(WithModule(module))
           /\ \A id \in AvailableEntryIds(Draft) :
                \/ id \in AvailableEntryIds(WithModule(module))
                \/ \E j \in DOMAIN ShownModule.entries : id = ShownModule.entries[j].entry_id
<1> DEFINE modules == [Draft.modules EXCEPT ![CurrentModule] = module]
           q == WithModule(module)
<1>1. CurrentModule \in DOMAIN Draft.modules
  BY ShownModuleTyped
<1>2. q.modules = modules /\ q.workflows = Draft.workflows
  BY DraftTyped DEF WithModule, APIOntologyPackage
<1>3. /\ DOMAIN modules = DOMAIN Draft.modules
      /\ modules[CurrentModule] = module
      /\ \A i \in DOMAIN Draft.modules : i # CurrentModule => modules[i] = Draft.modules[i]
  BY <1>1
<1> HIDE DEF modules, q
<1>4. ASSUME NEW j \in DOMAIN module.entries
      PROVE  module.entries[j].entry_id \in AvailableEntryIds(q)
  BY <1>1, <1>2, <1>3, Available
<1>5. ASSUME NEW id \in AvailableEntryIds(Draft)
      PROVE  \/ id \in AvailableEntryIds(q)
             \/ \E j \in DOMAIN ShownModule.entries : id = ShownModule.entries[j].entry_id
  <2>1. PICK i \in DOMAIN Draft.modules : \E j \in DOMAIN Draft.modules[i].entries :
               id = Draft.modules[i].entries[j].entry_id
    BY Available
  <2>2. CASE i = CurrentModule
    BY <2>1, <2>2 DEF ShownModule
  <2>3. CASE i # CurrentModule
    BY <1>2, <1>3, <2>1, <2>3, Available
  <2> QED BY <2>2, <2>3
<1> QED BY <1>2, <1>4, <1>5 DEF q

(* No entry of the module that is edited loses its id.                     *)
LEMMA WithModuleRefers ==
    ASSUME EditorInv, CurrentModule # 0, NEW module, source' = WithModule(module),
           \A j \in DOMAIN ShownModule.entries : \E k \in DOMAIN module.entries :
              ShownModule.entries[j].entry_id = module.entries[k].entry_id
    PROVE  Dangling(source') \subseteq Dangling(Draft)
<1>1. AllReferences(source') = AllReferences(Draft)
  BY WithModuleAvailable DEF AllReferences
<1>2. \A id \in AvailableEntryIds(Draft) : id \in AvailableEntryIds(source')
  BY WithModuleAvailable
<1> QED BY <1>1, <1>2 DEF Dangling

LEMMA AddModuleRefers ==
    ASSUME EditorInv, AddModule
    PROVE  Dangling(source') \subseteq Dangling(Draft)
<1> DEFINE module == DefaultApiModule(Len(Draft.modules) + 1)
           modules == Append(Draft.modules, module)
           q == [Draft EXCEPT !.modules = modules]
<1>1. source' = q
  BY DEF AddModule, UpdatePackage
<1>2. Draft \in APIOntologyPackage /\ Draft.modules \in Seq(APIOntologyModule)
  BY DraftTyped, PartsOf
<1> HIDE DEF module
<1>3. \A i \in DOMAIN Draft.modules : i \in DOMAIN modules /\ modules[i] = Draft.modules[i]
  BY <1>2
<1> HIDE DEF modules
<1>4. q.modules = modules /\ q.workflows = Draft.workflows
  BY <1>2 DEF APIOntologyPackage
<1> HIDE DEF q
<1>5. AllReferences(q) = AllReferences(Draft)
  BY <1>4 DEF AllReferences
<1>6. \A id \in AvailableEntryIds(Draft) : id \in AvailableEntryIds(q)
  BY <1>3, <1>4, Available
<1> QED BY <1>1, <1>5, <1>6 DEF Dangling

LEMMA AddEntryRefers ==
    ASSUME EditorInv, AddEntry
    PROVE  Dangling(source') \subseteq Dangling(Draft)
<1> DEFINE entry == DefaultApiEntry(ShownModule.module_key, Len(ShownModule.entries) + 1)
           entries == Append(ShownModule.entries, entry)
           module == [ShownModule EXCEPT !.entries = entries]
<1>1. CurrentModule # 0 /\ source' = WithModule(module)
  BY DEF AddEntry, UpdatePackage, WithEntries
<1>2. ShownModule \in APIOntologyModule /\ ShownModule.entries \in Seq(APIOntologyEntry)
  BY <1>1, ShownModuleTyped, PartsOfModule
<1> HIDE DEF entry
<1>3. \A j \in DOMAIN ShownModule.entries :
         j \in DOMAIN entries /\ entries[j] = ShownModule.entries[j]
  BY <1>2
<1> HIDE DEF entries
<1>4. module.entries = entries
  BY <1>2 DEF APIOntologyModule
<1> HIDE DEF module
<1> QED BY <1>1, <1>3, <1>4, WithModuleRefers

LEMMA UpdateModuleKeyRefers ==
    ASSUME EditorInv, NEW key, UpdateModuleKey(key)
    PROVE  Dangling(source') \subseteq Dangling(Draft)
<1> DEFINE entries == ShownModule.entries
           renamed == [j \in DOMAIN entries |-> [entries[j] EXCEPT !.module_key = key]]
           module == [module_key |-> key, entries |-> renamed]
<1>1. CurrentModule # 0 /\ source' = WithModule(module)
  BY DEF UpdateModuleKey, UpdatePackage
<1>2. \A j \in DOMAIN entries : entries[j] \in APIOntologyEntry
  BY <1>1, ShownModuleTyped, PartsOfModule
<1>3. \A j \in DOMAIN entries : j \in DOMAIN renamed /\ renamed[j].entry_id = entries[j].entry_id
  BY <1>2 DEF APIOntologyEntry
<1>4. module.entries = renamed
  OBVIOUS
<1> HIDE DEF module, renamed
<1> QED BY <1>1, <1>3, <1>4, WithModuleRefers

(* The entry that is edited becomes another one.                           *)
LEMMA WithEntryForm ==
    ASSUME EditorInv, CurrentEntry # 0, NEW entry
    PROVE  \E module :
             /\ CurrentModule # 0
             /\ WithEntry(entry) = WithModule(module)
             /\ DOMAIN module.entries = DOMAIN ShownModule.entries
             /\ CurrentEntry \in DOMAIN module.entries
             /\ module.entries[CurrentEntry] = entry
             /\ \A j \in DOMAIN ShownModule.entries :
                  j # CurrentEntry => module.entries[j] = ShownModule.entries[j]
<1> DEFINE entries == [ShownModule.entries EXCEPT ![CurrentEntry] = entry]
           module == [ShownModule EXCEPT !.entries = entries]
<1>1. CurrentModule # 0 /\ CurrentEntry \in DOMAIN ShownModule.entries
  BY ShownEntryTyped
<1>2. ShownModule \in APIOntologyModule
  BY <1>1, ShownModuleTyped
<1>3. module.entries = entries
  BY <1>2 DEF APIOntologyModule
<1>4. /\ DOMAIN entries = DOMAIN ShownModule.entries
      /\ entries[CurrentEntry] = entry
      /\ \A j \in DOMAIN ShownModule.entries : j # CurrentEntry => entries[j] = ShownModule.entries[j]
  BY <1>1
<1>5. WithEntry(entry) = WithModule(module)
  BY DEF WithEntry, WithEntries
<1> HIDE DEF module, entries
<1> QED BY <1>1, <1>3, <1>4, <1>5

LEMMA ClearApiNameRefers ==
    ASSUME EditorInv, ClearApiName
    PROVE  Dangling(source') \subseteq Dangling(Draft)
<1> DEFINE entry == [ShownEntry EXCEPT !.api_named = FALSE]
<1>1. CurrentEntry # 0 /\ source' = WithEntry(entry)
  BY DEF ClearApiName, UpdatePackage
<1>2. entry.entry_id = ShownModule.entries[CurrentEntry].entry_id
  BY <1>1, ShownEntryTyped DEF ShownEntry, APIOntologyEntry
<1> HIDE DEF entry
<1>3. PICK module : /\ CurrentModule # 0
                    /\ WithEntry(entry) = WithModule(module)
                    /\ DOMAIN module.entries = DOMAIN ShownModule.entries
                    /\ module.entries[CurrentEntry] = entry
                    /\ \A j \in DOMAIN ShownModule.entries :
                         j # CurrentEntry => module.entries[j] = ShownModule.entries[j]
  BY <1>1, WithEntryForm
<1>4. \A j \in DOMAIN ShownModule.entries :
         ShownModule.entries[j].entry_id = module.entries[j].entry_id
  BY <1>2, <1>3
<1> QED BY <1>1, <1>3, <1>4, WithModuleRefers

(* A renamed workflow names what it named, but the new id for the old one. *)
LEMMA ReplacedReferences ==
    ASSUME NEW w \in APIOntologyWorkflowDefinition, NEW from, NEW to,
           NEW id \in References(ReplaceEntryId(w, from, to))
    PROVE  id = to \/ (id \in References(w) /\ id # from)
<1> DEFINE ids == RenamedAll(w.participant_entry_ids, from, to)
           edges == EdgesRenamed(w.relationship_edges, from, to)
           rules == RulesRenamed(w.intent_rules, from, to)
           new == ReplaceEntryId(w, from, to)
           Old(r) == Renamed(r, from, to) = to \/ (Renamed(r, from, to) = r /\ r # from)
<1>0. \A r : Old(r)
  BY DEF Renamed
<1>1. /\ new.participant_entry_ids = ids
      /\ new.relationship_edges = edges
      /\ new.intent_rules = rules
  BY DEF ReplaceEntryId, APIOntologyWorkflowDefinition
<1>2. Names(new, id)
  BY ReferencesNamed
<1> HIDE DEF new
<1>3. CASE \E i \in DOMAIN ids : id = ids[i]
  <2>1. PICK i \in DOMAIN w.participant_entry_ids : id = Renamed(w.participant_entry_ids[i], from, to)
    BY <1>3 DEF RenamedAll
  <2>2. Names(w, w.participant_entry_ids[i])
    BY DEF Names
  <2> QED BY <1>0, <2>1, <2>2, ReferencesNamed
<1>4. CASE \E i \in DOMAIN edges : id = edges[i].from_entry_id \/ id = edges[i].to_entry_id
  <2>1. PICK i \in DOMAIN w.relationship_edges :
              \/ id = Renamed(w.relationship_edges[i].from_entry_id, from, to)
              \/ id = Renamed(w.relationship_edges[i].to_entry_id, from, to)
    BY <1>4 DEF EdgesRenamed
  <2>2. /\ Names(w, w.relationship_edges[i].from_entry_id)
        /\ Names(w, w.relationship_edges[i].to_entry_id)
    BY DEF Names
  <2> QED BY <1>0, <2>1, <2>2, ReferencesNamed
<1>5. CASE \E i \in DOMAIN rules : \E j \in DOMAIN rules[i].observed_entry_ids :
             id = rules[i].observed_entry_ids[j]
  <2>1. PICK i \in DOMAIN w.intent_rules : \E j \in DOMAIN rules[i].observed_entry_ids :
               id = rules[i].observed_entry_ids[j]
    BY <1>5 DEF RulesRenamed
  <2>2. w.intent_rules[i] \in APIOntologyIntentRule
    BY PartsOfWorkflow
  <2>3. rules[i].observed_entry_ids = RenamedAll(w.intent_rules[i].observed_entry_ids, from, to)
    BY <2>2 DEF RulesRenamed, APIOntologyIntentRule
  <2>4. PICK j \in DOMAIN w.intent_rules[i].observed_entry_ids :
              id = Renamed(w.intent_rules[i].observed_entry_ids[j], from, to)
    BY <2>1, <2>3 DEF RenamedAll
  <2>5. Names(w, w.intent_rules[i].observed_entry_ids[j])
    BY DEF Names
  <2> QED BY <1>0, <2>4, <2>5, ReferencesNamed
<1> QED BY <1>1, <1>2, <1>3, <1>4, <1>5 DEF Names

LEMMA UpdateEntryIdRefers ==
    ASSUME EditorInv, NEW id, UpdateEntryId(id)
    PROVE  Dangling(source') \subseteq Dangling(Draft)
<1> DEFINE from == ShownEntry.entry_id
           entry == [ShownEntry EXCEPT !.entry_id = id]
           p == WithEntry(entry)
           new == [i \in DOMAIN p.workflows |-> ReplaceEntryId(p.workflows[i], from, id)]
           q == [p EXCEPT !.workflows = new]
<1>1. CurrentEntry # 0 /\ source' = q
  BY DEF UpdateEntryId, UpdatePackage
<1>2. entry.entry_id = id /\ from = ShownModule.entries[CurrentEntry].entry_id
  BY <1>1, ShownEntryTyped DEF ShownEntry, APIOntologyEntry
<1> HIDE DEF entry
<1>3. PICK module : /\ CurrentModule # 0
                    /\ p = WithModule(module)
                    /\ DOMAIN module.entries = DOMAIN ShownModule.entries
                    /\ CurrentEntry \in DOMAIN module.entries
                    /\ module.entries[CurrentEntry] = entry
                    /\ \A j \in DOMAIN ShownModule.entries :
                         j # CurrentEntry => module.entries[j] = ShownModule.entries[j]
  BY <1>1, WithEntryForm
<1> HIDE DEF p
<1>4. p.workflows = Draft.workflows
  BY <1>3, WithModuleAvailable
<1>5. q.workflows = new /\ q.modules = p.modules
  BY <1>3, DraftTyped DEF WithModule, APIOntologyPackage
<1>6. AvailableEntryIds(q) = AvailableEntryIds(p)
  BY <1>5 DEF AvailableEntryIds
<1> HIDE DEF q
<1>7. id \in AvailableEntryIds(p)
  BY <1>2, <1>3, WithModuleAvailable
<1>8. ASSUME NEW r \in AvailableEntryIds(Draft), r # from PROVE r \in AvailableEntryIds(p)
  <2>1. CASE \E j \in DOMAIN ShownModule.entries : r = ShownModule.entries[j].entry_id
    <3>1. PICK j \in DOMAIN ShownModule.entries : r = ShownModule.entries[j].entry_id
      BY <2>1
    <3>2. j # CurrentEntry
      BY <1>2, <1>8, <3>1
    <3> QED BY <1>3, <3>1, <3>2, WithModuleAvailable
  <2>2. CASE r \in AvailableEntryIds(WithModule(module))
    BY <1>3, <2>2
  <2> QED BY <1>3, <2>1, <2>2, WithModuleAvailable
<1>9. ASSUME NEW r \in AllReferences(q) PROVE r = id \/ (r \in AllReferences(Draft) /\ r # from)
  <2>1. PICK i \in DOMAIN Draft.workflows : r \in References(ReplaceEntryId(Draft.workflows[i], from, id))
    BY <1>4, <1>5 DEF AllReferences
  <2>2. Draft.workflows[i] \in APIOntologyWorkflowDefinition
    BY DraftTyped, PartsOf
  <2>3. r = id \/ (r \in References(Draft.workflows[i]) /\ r # from)
    BY <2>1, <2>2, ReplacedReferences
  <2> QED BY <2>3 DEF AllReferences
<1>10. \A r \in AllReferences(q) : Refers(r, Draft, q)
  BY <1>6, <1>7, <1>8, <1>9 DEF Refers
<1> QED BY <1>1, <1>10, NoneDangles

LEMMA AddWorkflowRefers ==
    ASSUME EditorInv, AddWorkflow
    PROVE  Dangling(source') \subseteq Dangling(Draft)
<1> DEFINE workflow == DefaultWorkflow(Len(Draft.workflows) + 1)
           workflows == Append(Draft.workflows, workflow)
           q == [Draft EXCEPT !.workflows = workflows]
<1>1. source' = q
  BY DEF AddWorkflow, UpdatePackage
<1>2. Draft \in APIOntologyPackage /\ Draft.workflows \in Seq(APIOntologyWorkflowDefinition)
  BY DraftTyped, PartsOf
<1>3. ASSUME NEW r \in References(workflow) PROVE r \in AvailableEntryIds(Draft)
  <2>1. Names(workflow, r)
    BY ReferencesNamed
  <2>2. r = FirstEntryOf(Draft) /\ FirstEntryOf(Draft) # NoName
    BY <2>1 DEF Names, DefaultWorkflow
  <2> QED BY <1>2, <2>2, FirstEntryShown
<1> HIDE DEF workflow
<1>4. \A i \in DOMAIN workflows :
         workflows[i] = workflow \/ (i \in DOMAIN Draft.workflows /\ workflows[i] = Draft.workflows[i])
  BY <1>2
<1> HIDE DEF workflows
<1>5. q.modules = Draft.modules /\ q.workflows = workflows
  BY <1>2 DEF APIOntologyPackage
<1>6. AvailableEntryIds(q) = AvailableEntryIds(Draft)
  BY <1>5 DEF AvailableEntryIds
<1> HIDE DEF q
<1>7. \A r \in AllReferences(q) : r \in AllReferences(Draft) \/ r \in AvailableEntryIds(Draft)
  BY <1>3, <1>4, <1>5 DEF AllReferences
<1> QED BY <1>1, <1>6, <1>7 DEF Dangling

LEMMA RemoveWorkflowRefers ==
    ASSUME EditorInv, RemoveWorkflow
    PROVE  Dangling(source') \subseteq Dangling(Draft)
<1> DEFINE workflows == Draft.workflows
           key == workflows[CurrentWorkflow].workflow_key
           I == {i \in DOMAIN workflows : workflows[i].workflow_key # key}
           rest == Kept(workflows, I)
           q == [Draft EXCEPT !.workflows = rest]
<1>1. source' = q
  BY DEF RemoveWorkflow, UpdatePackage
<1>2. Draft \in APIOntologyPackage /\ workflows \in Seq(APIOntologyWorkflowDefinition)
  BY DraftTyped, PartsOf
<1>3. From(rest, workflows, I)
  BY <1>2, KeptFrom
<1> HIDE DEF rest
<1>4. q.modules = Draft.modules /\ q.workflows = rest
  BY <1>2 DEF APIOntologyPackage
<1>5. AvailableEntryIds(q) = AvailableEntryIds(Draft)
  BY <1>4 DEF AvailableEntryIds
<1> HIDE DEF q
<1>6. AllReferences(q) \subseteq AllReferences(Draft)
  BY <1>3, <1>4 DEF From, AllReferences
<1> QED BY <1>1, <1>5, <1>6 DEF Dangling

LEMMA RemoveEntryRefers ==
    ASSUME EditorInv, RemoveEntry
    PROVE  Dangling(source') \subseteq Dangling(Draft)
<1> DEFINE entries == ShownModule.entries
           id == ShownEntry.entry_id
           I == {j \in DOMAIN entries : entries[j].entry_id # id}
           left == Kept(entries, I)
           module == [ShownModule EXCEPT !.entries = left]
           p == WithModule(module)
           workflows == Cleaned(p.workflows, {id})
           q == [p EXCEPT !.workflows = workflows]
<1>1. CurrentEntry # 0 /\ source' = q
  BY DEF RemoveEntry, UpdatePackage, WithEntries
<1>2. CurrentModule # 0 /\ ShownModule \in APIOntologyModule /\ entries \in Seq(APIOntologyEntry)
  BY <1>1, ShownEntryTyped, ShownModuleTyped, PartsOfModule
<1>3. Left(left, entries, I, Len(entries))
  BY <1>2, KeptFrom
<1> HIDE DEF left
<1>4. module.entries = left
  BY <1>2 DEF APIOntologyModule
<1> HIDE DEF module, workflows
<1>5. AvailableEntryIds(q) = AvailableEntryIds(p)
  <2>1. q.modules = p.modules
    BY DraftTyped DEF WithModule, APIOntologyPackage
  <2> QED BY <2>1 DEF AvailableEntryIds
<1> HIDE DEF q, p
<1>6. ASSUME NEW r \in AvailableEntryIds(Draft), r # id PROVE r \in AvailableEntryIds(p)
  <2>1. CASE \E j \in DOMAIN entries : r = entries[j].entry_id
    <3>1. PICK j \in DOMAIN entries : r = entries[j].entry_id
      BY <2>1
    <3>2. j \in I \cap (1..Len(entries))
      BY <1>2, <1>6, <3>1
    <3>3. PICK k \in DOMAIN left : left[k] = entries[j]
      BY <1>3, <3>2 DEF Left
    <3> QED BY <1>2, <1>4, <3>1, <3>3, WithModuleAvailable DEF p
  <2> QED BY <1>2, <2>1, WithModuleAvailable DEF p
<1>7. AllReferences(source') \subseteq AllReferences(Draft) \ {id}
  BY RemoveEntryKeeps
<1> QED BY <1>1, <1>5, <1>6, <1>7 DEF Dangling

LEMMA RemoveModuleRefers ==
    ASSUME EditorInv, RemoveModule, KeysDistinct(Draft)
    PROVE  Dangling(source') \subseteq Dangling(Draft)
<1> DEFINE modules == Draft.modules
           removed == modules[CurrentModule]
           I == {i \in DOMAIN modules : modules[i].module_key # removed.module_key}
           rest == Kept(modules, I)
           gone == {ShownModule.entries[j].entry_id : j \in DOMAIN ShownModule.entries}
<1>1. CurrentModule # 0 /\ source'.modules = rest
  BY DEF RemoveModule, UpdatePackage
<1>2. modules \in Seq(APIOntologyModule) /\ CurrentModule \in DOMAIN modules
  BY <1>1, DraftTyped, PartsOf, ShownModuleTyped
<1>3. Left(rest, modules, I, Len(modules))
  BY <1>2, KeptFrom
<1> HIDE DEF rest
<1>4. ASSUME NEW r \in AvailableEntryIds(Draft), r \notin gone PROVE r \in AvailableEntryIds(source')
  <2>1. PICK i \in DOMAIN modules : \E j \in DOMAIN modules[i].entries :
               r = modules[i].entries[j].entry_id
    BY Available
  <2>2. i # CurrentModule
    BY <1>4, <2>1 DEF ShownModule
  <2>3. i \in I \cap (1..Len(modules))
    BY <1>2, <2>2 DEF KeysDistinct
  <2>4. PICK k \in DOMAIN rest : rest[k] = modules[i]
    BY <1>3, <2>3 DEF Left
  <2> QED BY <1>1, <2>1, <2>4, Available
<1>5. AllReferences(source') \subseteq AllReferences(Draft) \ gone
  BY RemoveModuleKeeps
<1> QED BY <1>4, <1>5 DEF Dangling

(* Every package stays one, and the selection three names, through edits,  *)
(* resets, saves and sources typed by hand.                                *)
THEOREM EditorTypeCorrect == EditorSpec => []EditorTypeOK
<1>1. EditorInv => EditorTypeOK
  BY DEF EditorInv
<1> QED BY EditorInitially, EditorInductive, <1>1, PTL DEF EditorSpec

(* What is selected is shown: after every step the inputs of the editor    *)
(* are those of a module, an entry and a workflow the draft contains.      *)
THEOREM SelectionIsShown == EditorSpec => []SelectionShown
<1>1. EditorInv => SelectionShown
  BY DEF EditorInv
<1> QED BY EditorInitially, EditorInductive, <1>1, PTL DEF EditorSpec

(* Nothing that is left refers to an entry that was removed, by itself or  *)
(* with its module.                                                        *)
THEOREM RemovalsClean == EditorSpec => RemovalCleans
<1>1. ASSUME EditorInv, [EditorNext]_editorVars
      PROVE  [ /\ RemoveEntry => ShownEntry.entry_id \notin AllReferences(source')
               /\ RemoveModule => \A j \in DOMAIN ShownModule.entries :
                                    ShownModule.entries[j].entry_id \notin AllReferences(source')
             ]_editorVars
  BY <1>1, RemoveEntryKeeps, RemoveModuleKeeps
<1> QED BY EditorInitially, EditorInductive, <1>1, PTL DEF EditorSpec, RemovalCleans

(* No edit of modules or entries, and no new or removed workflow, leaves a *)
(* reference to an entry that is not there, but for those that dangled     *)
(* before, where no two modules share a key: whatever entry or module is   *)
(* removed or renamed, in whatever package, typed by hand or not.          *)
THEOREM NoReferenceLost == EditorSpec => NothingNewDangles
<1>1. ASSUME EditorInv, EditAround, KeysDistinct(Draft)
      PROVE  Dangling(source') \subseteq Dangling(Draft)
  <2>1. CASE AddModule \/ AddEntry \/ AddWorkflow
    BY <1>1, <2>1, AddModuleRefers, AddEntryRefers, AddWorkflowRefers
  <2>2. CASE RemoveModule \/ RemoveEntry \/ RemoveWorkflow
    BY <1>1, <2>2, RemoveModuleRefers, RemoveEntryRefers, RemoveWorkflowRefers
  <2>3. CASE \E name \in Typed : UpdateModuleKey(name) \/ UpdateEntryId(name)
    BY <1>1, <2>3, UpdateModuleKeyRefers, UpdateEntryIdRefers
  <2>4. CASE ClearApiName
    BY <1>1, <2>4, ClearApiNameRefers
  <2>5. CASE UpdateOtherField
    BY <2>5 DEF UpdateOtherField, UpdatePackage
  <2> QED BY <1>1, <2>1, <2>2, <2>3, <2>4, <2>5 DEF EditAround
<1>2. ASSUME EditorInv, [EditorNext]_editorVars
      PROVE  [ \/ Dangling(source') \subseteq Dangling(Draft)
               \/ ~EditAround
               \/ ~KeysDistinct(Draft) ]_editorVars
  BY <1>1, <1>2
<1> QED BY EditorInitially, EditorInductive, <1>2, PTL DEF EditorSpec, NothingNewDangles
=============================================================================
