--------------------------- MODULE OperatorSession ---------------------------
(***************************************************************************)
(* The operator's session in the web console (apps/web).  There are two    *)
(* copies of it: one in localStorage, which all tabs of the browser share  *)
(* (lib/api/client.ts), and one in the state of the ConsoleShell that each *)
(* tab mounts (components/console-shell.tsx).  Every request reads the     *)
(* stored token when it is sent and may change the stored session when its *)
(* answer arrives; answers arrive in any order, also after the tab that    *)
(* asked went to another page.  A token is signed and stateless: it        *)
(* expires, and a logout does not revoke it (api/routes/auth.py).          *)
(***************************************************************************)
EXTENDS Naturals, Sequences

CONSTANTS
    Tabs,         \* tabs of one browser
    Users,
    MaxCalls,     \* bound on the requests the browser has under way
    MaxTokens,    \* bound on the tokens the server issues
    NoSession

ASSUME SessionAssumptions == /\ MaxTokens \in Nat
                             /\ MaxCalls \in Nat
                             /\ NoSession \notin [token : 1..MaxTokens, user : Users]

VARIABLES
    stored,       \* the session in localStorage
    issuedTo,     \* issuedTo[k] is the user for whom the server signed token k
    expired,      \* tokens past their expiry
    tab,          \* what each tab has mounted
    call          \* the requests under way

vars == <<stored, issuedTo, expired, tab, call>>

Session == [token : 1..MaxTokens, user : Users]
Calls == 1..MaxCalls

LoginForm == [at |-> "login", busy |-> FALSE]
Checking(session) == [at |-> "console", ready |-> FALSE, error |-> FALSE, session |-> session]

Tab == [at : {"login"}, busy : BOOLEAN]
       \cup [at : {"console"}, ready : BOOLEAN, error : BOOLEAN,
             session : Session \cup {NoSession}]

Free == [kind |-> "free"]

(* sent is the session that was stored when the request was sent, fresh    *)
(* says that its token had not expired then, and live that the component   *)
(* that sent it is still mounted.                                          *)
Sent == Session \cup {NoSession}
Call == [kind : {"me"}, tab : Tabs, sent : Sent, fresh : BOOLEAN, live : BOOLEAN]
        \cup [kind : {"page"}, tab : Tabs, sent : Sent, fresh : BOOLEAN]
        \cup [kind : {"login"}, tab : Tabs, user : Users, live : BOOLEAN]
        \cup [kind : {"logout"}, tab : Tabs]

TypeOK == /\ stored \in Session \cup {NoSession}
          /\ issuedTo \in Seq(Users) /\ Len(issuedTo) <= MaxTokens
          /\ expired \subseteq DOMAIN issuedTo
          /\ tab \in [Tabs -> Tab]
          /\ call \in [Calls -> Call \cup {Free}]

Init == /\ stored = NoSession
        /\ issuedTo = <<>>
        /\ expired = {}
        /\ tab = [t \in Tabs |-> LoginForm]
        /\ call = [c \in Calls |-> Free]

(* What ConsoleShell renders.                                              *)
Shows(t) == IF tab[t].at = "login" THEN "login"
            ELSE IF ~tab[t].ready THEN "checking"
            ELSE IF tab[t].error THEN "unavailable"
            ELSE IF tab[t].session = NoSession THEN "locked"
            ELSE "console"

(* The user the sidebar and the header name, for whose role the pages      *)
(* enable their buttons.                                                   *)
SignedInAs(t) == tab[t].session.user

(* A request to an endpoint that asks for a token carries the stored one.  *)
Fresh == stored # NoSession /\ stored.token \notin expired
MeCall(t) == [kind |-> "me", tab |-> t, sent |-> stored, fresh |-> Fresh, live |-> TRUE]
PageCall(t) == [kind |-> "page", tab |-> t, sent |-> stored, fresh |-> Fresh]

Of(t) == {c \in Calls : call[c] # Free /\ call[c].tab = t}

(* A new request takes the first free place.                               *)
Vacant(c) == call[c] = Free /\ \A d \in Calls : d < c => call[d] # Free

(* The calls when tab t unmounts what it shows: they go on without it.     *)
Unmounted(t) == [c \in Calls |-> IF c \in Of(t) /\ call[c].kind \in {"me", "login"}
                                 THEN [call[c] EXCEPT !.live = FALSE]
                                 ELSE call[c]]
-----------------------------------------------------------------------------
(* A page of the console is opened: the shell mounts and asks who is       *)
(* signed in.                                                              *)
Mount(t, c) ==
    /\ tab[t].at = "login"
    /\ Vacant(c)
    /\ tab' = [tab EXCEPT ![t] = Checking(NoSession)]
    /\ call' = [Unmounted(t) EXCEPT ![c] = MeCall(t)]
    /\ UNCHANGED <<stored, issuedTo, expired>>

(* The Retry button of the card that says the backend is unavailable.      *)
Retry(t, c) ==
    /\ Shows(t) = "unavailable"
    /\ Vacant(c)
    /\ tab' = [tab EXCEPT ![t] = Checking(@.session)]
    /\ call' = [call EXCEPT ![c] = MeCall(t)]
    /\ UNCHANGED <<stored, issuedTo, expired>>

(* Go to login, or the browser's history.                                  *)
OpenLogin(t) ==
    /\ tab[t].at = "console"
    /\ tab' = [tab EXCEPT ![t] = LoginForm]
    /\ call' = Unmounted(t)
    /\ UNCHANGED <<stored, issuedTo, expired>>

(* The tab's page is loaded anew, or the tab closed: its requests are      *)
(* dropped.  A tab that is closed counts as one on the login page.         *)
Reload(t) ==
    /\ tab' = [tab EXCEPT ![t] = LoginForm]
    /\ call' = [c \in Calls |-> IF c \in Of(t) THEN Free ELSE call[c]]
    /\ UNCHANGED <<stored, issuedTo, expired>>

SignOut(t, c) ==
    /\ Shows(t) = "console"
    /\ Vacant(c)
    /\ call' = [call EXCEPT ![c] = [kind |-> "logout", tab |-> t]]
    /\ UNCHANGED <<stored, issuedTo, expired, tab>>

(* A page of the console requests its data or submits a change.            *)
PageRequest(t, c) ==
    /\ Shows(t) = "console"
    /\ Vacant(c)
    /\ call' = [call EXCEPT ![c] = PageCall(t)]
    /\ UNCHANGED <<stored, issuedTo, expired, tab>>

Submit(t, c, user) ==
    /\ tab[t].at = "login" /\ ~tab[t].busy
    /\ Vacant(c)
    /\ tab' = [tab EXCEPT ![t] = [at |-> "login", busy |-> TRUE]]
    /\ call' = [call EXCEPT ![c] = [kind |-> "login", tab |-> t, user |-> user, live |-> TRUE]]
    /\ UNCHANGED <<stored, issuedTo, expired>>

Expire(k) == /\ k \notin expired
             /\ expired' = expired \cup {k}
             /\ UNCHANGED <<stored, issuedTo, tab, call>>
-----------------------------------------------------------------------------
(* The answers a request that carries a token can get, by the moment it is *)
(* served, which is between its sending and the answer's arrival.          *)
Answers(s) == {"unavailable"}
              \cup (IF s.fresh THEN {"ok"} ELSE {})
              \cup (IF s.sent = NoSession \/ s.sent.token \in expired
                    THEN {"unauthorized"} ELSE {})

(* me pairs the token it read before the await with the user the server    *)
(* names for it.                                                           *)
Confirmed(s) == [token |-> s.sent.token, user |-> issuedTo[s.sent.token]]

(* Slip: a load that fails leaves the shell checking.                      *)
ShellAfterMeSilent(shell, answer, s) ==
    CASE answer = "ok" -> [shell EXCEPT !.session = Confirmed(s), !.ready = TRUE]
      [] answer = "unauthorized" -> [shell EXCEPT !.session = NoSession, !.ready = TRUE]
      [] answer = "unavailable" -> [shell EXCEPT !.session = NoSession, !.error = TRUE]

ShellAfterMe(shell, answer, s) ==
    CASE answer = "ok" -> [shell EXCEPT !.session = Confirmed(s), !.ready = TRUE]
      [] answer = "unauthorized" -> [shell EXCEPT !.session = NoSession, !.ready = TRUE]
      [] answer = "unavailable" -> [shell EXCEPT !.session = NoSession, !.error = TRUE,
                                                 !.ready = TRUE]

(* Slip: the token is read from the storage after the await.               *)
StoredAfterLate(answer, s) ==
    CASE answer = "ok" /\ s.kind = "me" ->
            [token |-> IF stored = NoSession THEN s.sent.token ELSE stored.token,
             user |-> issuedTo[s.sent.token]]
      [] answer = "unauthorized" -> NoSession
      [] OTHER -> stored

(* A 401 clears the storage, whichever token it answers and whatever is    *)
(* stored by now; an answer to me overwrites it.                           *)
StoredAfter(answer, s) ==
    CASE answer = "ok" /\ s.kind = "me" -> Confirmed(s)
      [] answer = "unauthorized" -> NoSession
      [] OTHER -> stored

(* The flag in the shell's effect keeps an answer that comes too late out  *)
(* of its state, not out of the storage.                                   *)
ReceiveMe(c, answer) ==
    LET s == call[c]
    IN  /\ s.kind = "me"
        /\ answer \in Answers(s)
        /\ stored' = StoredAfter(answer, s)
        /\ tab' = IF s.live THEN [tab EXCEPT ![s.tab] = ShellAfterMe(@, answer, s)] ELSE tab
        /\ call' = [call EXCEPT ![c] = Free]
        /\ UNCHANGED <<issuedTo, expired>>

ReceivePage(c, answer) ==
    LET s == call[c]
    IN  /\ s.kind = "page"
        /\ answer \in Answers(s)
        /\ stored' = StoredAfter(answer, s)
        /\ call' = [call EXCEPT ![c] = Free]
        /\ UNCHANGED <<issuedTo, expired, tab>>

(* The password is right: the server signs a token, the client stores it,  *)
(* and the tab goes to the console, where a shell mounts unless one is     *)
(* mounted already (its operator went back in the meantime).               *)
LoginAccepted(c) ==
    LET s == call[c]
        session == [token |-> Len(issuedTo) + 1, user |-> s.user]
    IN  /\ s.kind = "login"
        /\ Len(issuedTo) < MaxTokens
        /\ issuedTo' = Append(issuedTo, s.user)
        /\ stored' = session
        /\ IF tab[s.tab].at = "console"
           THEN /\ call' = [call EXCEPT ![c] = Free]
                /\ UNCHANGED tab
           ELSE /\ tab' = [tab EXCEPT ![s.tab] = Checking(NoSession)]
                /\ call' = [Unmounted(s.tab) EXCEPT ![c] =
                              [kind |-> "me", tab |-> s.tab, sent |-> session,
                               fresh |-> TRUE, live |-> TRUE]]
        /\ UNCHANGED expired

(* A wrong password is answered with 401, like an expired token; without   *)
(* an answer the storage stays.                                            *)
LoginRefused(c, answer) ==
    LET s == call[c]
    IN  /\ s.kind = "login"
        /\ answer \in {"unauthorized", "unavailable"}
        /\ stored' = StoredAfter(answer, s)
        /\ tab' = IF s.live /\ tab[s.tab].at = "login"
                  THEN [tab EXCEPT ![s.tab] = LoginForm] ELSE tab
        /\ call' = [call EXCEPT ![c] = Free]
        /\ UNCHANGED <<issuedTo, expired>>

(* Slip: the tab leaves the console only if the server answered.           *)
ReceiveLogoutIfServed(c, answer) ==
    LET s == call[c]
    IN  /\ s.kind = "logout"
        /\ answer \in {"ok", "unavailable"}
        /\ stored' = NoSession
        /\ tab' = IF answer = "ok" THEN [tab EXCEPT ![s.tab] = LoginForm] ELSE tab
        /\ call' = [(IF answer = "ok" THEN Unmounted(s.tab) ELSE call) EXCEPT ![c] = Free]
        /\ UNCHANGED <<issuedTo, expired>>

(* Whatever the answer (the endpoint asks for no token) the finally blocks *)
(* of client.auth.logout and of signOut run.                               *)
ReceiveLogout(c, answer) ==
    LET s == call[c]
    IN  /\ s.kind = "logout"
        /\ answer \in {"ok", "unavailable"}
        /\ stored' = NoSession
        /\ tab' = IF tab[s.tab].at = "console" THEN [tab EXCEPT ![s.tab] = LoginForm] ELSE tab
        /\ call' = [(IF tab[s.tab].at = "console" THEN Unmounted(s.tab) ELSE call)
                        EXCEPT ![c] = Free]
        /\ UNCHANGED <<issuedTo, expired>>

Receive(c) == \E answer \in {"ok", "unauthorized", "unavailable"} :
                  \/ ReceiveMe(c, answer)
                  \/ ReceivePage(c, answer)
                  \/ LoginRefused(c, answer)
                  \/ ReceiveLogout(c, answer)

Next == \/ \E t \in Tabs :
              \/ OpenLogin(t)
              \/ Reload(t)
              \/ \E c \in Calls : \/ Mount(t, c)
                                  \/ Retry(t, c)
                                  \/ SignOut(t, c)
                                  \/ PageRequest(t, c)
                                  \/ \E user \in Users : Submit(t, c, user)
        \/ \E c \in Calls : Receive(c) \/ LoginAccepted(c)
        \/ \E k \in DOMAIN issuedTo : Expire(k)

Spec == Init /\ [][Next]_vars

(* fetch ends, with an answer or an error; nothing else is owed.           *)
FairSpec == Spec /\ \A c \in Calls : WF_call(Receive(c) \/ LoginAccepted(c))
-----------------------------------------------------------------------------
Genuine(session) == /\ session.token \in DOMAIN issuedTo
                    /\ issuedTo[session.token] = session.user

(* The token that requests carry and the user whom the console names and   *)
(* whose role enables its buttons belong together, in the storage and in   *)
(* every shell, however logins, loads and logouts of several tabs overlap. *)
PairConsistent ==
    /\ stored # NoSession => Genuine(stored)
    /\ \A t \in Tabs : tab[t].at = "console" /\ tab[t].session # NoSession =>
                          Genuine(tab[t].session)

(* A shell never stays at "Checking session state".                        *)
LoadSettles == \A t \in Tabs : Shows(t) = "checking" ~> Shows(t) # "checking"

(* Sign out takes the operator off the console, also when the server is    *)
(* not reachable.                                                          *)
SignOutLeaves ==
    \A t \in Tabs : (\E c \in Of(t) : call[c].kind = "logout" /\ Shows(t) = "console")
                        ~> Shows(t) # "console"

(* Not kept by the code: once the storage is empty, only a login fills it. *)
(* An answer to me that was sent before the sign-out writes the session    *)
(* back.                                                                   *)
SignedOutStays ==
    [][stored = NoSession /\ stored' # NoSession => issuedTo' # issuedTo]_vars

(* Not kept by the code: the session of a new login stays until the        *)
(* operator signs out or its token expires.  A late 401 for an older       *)
(* token, or a wrong password in another tab, clears it.                   *)
LoginKept ==
    [][stored # NoSession /\ stored.token \notin expired /\ stored' = NoSession =>
          \E c \in Calls : call[c].kind = "logout" /\ call'[c] = Free]_vars
=============================================================================
