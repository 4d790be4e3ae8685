----------------------------- MODULE MasterAccess -----------------------------
(***************************************************************************)
(* The way of a request into the master: IP whitelist, the limiter that    *)
(* all requests share, the one of /api/login behind it, the login itself   *)
(* with its second factor, tokens, and the audit log (internal/master      *)
(* middleware, auth, audit and the handlers of api.go that use them).      *)
(*                                                                         *)
(* One account, the administrator that main creates.  A client is a source *)
(* of requests, one at a time; two clients can have the same address.      *)
(* Secrets and tokens are told apart by a number of their own, 0 is "none".*)
(* Passwords and codes are right or wrong; only who was shown a secret can *)
(* compute its code.                                                       *)
(***************************************************************************)
EXTENDS RateLimiter

CONSTANTS
    Clients,
    Remote,        \* RemoteAddr of a client's connection, without the port
    Private,       \* the clients whose RemoteAddr is private or loopback
    Forwarded,     \* first element of X-Forwarded-For, None without one
    None,
    Whitelist,     \* IP_WHITELIST, {} when not set
    LoginRate,     \* of the limiter of /api/login; Rate is the shared one's
    Ttl,           \* lifetime of a token
    MaxSize,       \* entries that the audit log keeps in memory
    MaxTime, MaxLogged, MaxFresh, MaxRestarts, MaxRefused   \* bounds

ASSUME AddressAssumption ==
    \A c \in Clients : Remote[c] \in Visitors /\ Forwarded[c] \in Visitors \cup {None}
ASSUME LoginRateAssumption == LoginRate \in Nat \ {0}
ASSUME LogAssumption == MaxSize \in Nat /\ Ttl \in Nat
ASSUME BoundAssumption == MaxFresh \in Nat /\ MaxRestarts \in Nat

VARIABLES
    loginLimits, loginAdmitted,    \* the limiter of /api/login
    pc,            \* where the handler of a client's request stands
    minted,        \* the token that handler has generated
    token,         \* the token a client holds
    secret,        \* TOTPSecret of the account
    made,          \* the secret a setup handler stored and will return
    shown,         \* secrets that a client was shown
    fresh,         \* secrets and tokens made so far
    file, entries, \* the audit log: audit.jsonl, and the newest in memory
    open,          \* main has not closed the file yet
    missed,        \* tokens of logins that found it closed
    boot,          \* length of the file when the process started
    restarts

limitVars == <<limits, admitted, loginLimits, loginAdmitted>>
accountVars == <<minted, token, secret, made, shown, fresh>>
auditVars == <<file, entries, missed>>
processVars == <<open, boot, restarts>>
accessVars == <<limitVars, now, pc, accountVars, auditVars, processVars>>

(* ExtractIP trusts X-Forwarded-For from private addresses only.           *)
ExtractIP(c) ==
    IF Forwarded[c] # None /\ c \in Private THEN Forwarded[c] ELSE Remote[c]

Whitelisted(c) == Whitelist = {} \/ ExtractIP(c) \in Whitelist

(* RateLimiter's own variables are the limiter that all requests share.    *)
Login == INSTANCE RateLimiter WITH Rate <- LoginRate,
            limits <- loginLimits, admitted <- loginAdmitted

PCs == {"idle", "login", "attempt", "password", "minted", "logged",
        "setup", "stored"}

Token == [id : 0..fresh, exp : Nat]
NoToken == [id |-> 0, exp |-> 0]

Event == [what : {"login_failed", "totp_failed", "login_success"},
          token : 0..fresh]

TypeOK ==
    /\ LimiterTypeOK /\ Login!LimiterTypeOK
    /\ pc \in [Clients -> PCs]
    /\ minted \in [Clients -> Token] /\ token \in [Clients -> Token]
    /\ fresh \in 0..MaxFresh /\ secret \in 0..fresh
    /\ made \in [Clients -> 0..fresh]
    /\ shown \in [Clients -> SUBSET (1..fresh)]
    /\ file \in Seq(Event) /\ entries \in Seq(Event)
    /\ Len(entries) <= MaxSize
    /\ open \in BOOLEAN /\ missed \subseteq 1..fresh
    /\ boot \in 0..Len(file) /\ restarts \in 0..MaxRestarts
    /\ \A c \in Clients : pc[c] \in {"minted", "logged"} <=> minted[c] # NoToken

Init ==
    /\ LimiterInit /\ Login!LimiterInit /\ now = 0
    /\ pc = [c \in Clients |-> "idle"]
    /\ minted = [c \in Clients |-> NoToken]
    /\ token = [c \in Clients |-> NoToken]
    /\ secret = 0 /\ fresh = 0
    /\ made = [c \in Clients |-> 0]
    /\ shown = [c \in Clients |-> {}]
    /\ file = <<>> /\ entries = <<>> /\ open = TRUE /\ missed = {}
    /\ boot = 0 /\ restarts = 0

-----------------------------------------------------------------------------
Goto(c, to) == pc' = [pc EXCEPT ![c] = to]

(* ValidateToken: a token is good up to and including the second exp.      *)
Valid(c) == token[c] # NoToken /\ now <= token[c].exp

(* The audit log: one entry, to memory and to the file, under its mutex.   *)
(* Nobody looks at the error of a write to the closed file.                *)
NeverTrimmed(s) == s

Newest(s) == SubSeq(s, IF Len(s) > MaxSize THEN Len(s) - MaxSize + 1 ELSE 1, Len(s))

Log(what, id) ==
    LET e == [what |-> what, token |-> id] IN
    /\ Len(file) < MaxLogged
    /\ entries' = Newest(Append(entries, e))
    /\ file' = IF open THEN Append(file, e) ELSE file
    /\ missed' = IF open \/ id = 0 THEN missed ELSE missed \cup {id}

(* Whitelist and shared limiter, then the route: /api/login is limited     *)
(* again, /api/setup-totp needs the administrator's token, and the other   *)
(* routes change nothing here.                                             *)
Request(c) ==
    /\ pc[c] = "idle" /\ Whitelisted(c)
    /\ \/ /\ Admit(ExtractIP(c))
          /\ \/ Goto(c, "login")
             \/ Valid(c) /\ Goto(c, "setup")
             \/ UNCHANGED pc
       \/ /\ Counted(ExtractIP(c)).count <= Rate + MaxRefused
          /\ Refuse(ExtractIP(c))
          /\ UNCHANGED pc
    /\ UNCHANGED <<loginLimits, loginAdmitted, accountVars, auditVars, processVars>>

LimitLogin(c) ==
    /\ pc[c] = "login"
    /\ \/ Login!Admit(ExtractIP(c)) /\ Goto(c, "attempt")
       \/ Login!Refuse(ExtractIP(c)) /\ Goto(c, "idle")
    /\ UNCHANGED <<limits, admitted, accountVars, auditVars, processVars>>

-----------------------------------------------------------------------------
(* HandleLogin.                                                            *)
ValidatePassword(c) ==
    /\ pc[c] = "attempt"
    /\ \/ Goto(c, "password") /\ UNCHANGED auditVars
       \/ Log("login_failed", 0) /\ Goto(c, "idle")
    /\ UNCHANGED <<limitVars, now, accountVars, processVars>>

(* GetUser copies the account; the code is checked against the copy and    *)
(* the token made without another look at the account.                     *)
GetUser(c) ==
    /\ pc[c] = "password"
    /\ \/ /\ secret = 0 \/ secret \in shown[c]
          /\ fresh < MaxFresh
          /\ fresh' = fresh + 1
          /\ minted' = [minted EXCEPT ![c] = [id |-> fresh', exp |-> now + Ttl]]
          /\ Goto(c, "minted")
          /\ UNCHANGED auditVars
       \/ /\ secret # 0
          /\ Log("totp_failed", 0)
          /\ Goto(c, "idle")
          /\ UNCHANGED <<minted, fresh>>
    /\ UNCHANGED <<limitVars, now, token, secret, made, shown, processVars>>

RecordLater(c) ==
    /\ pc[c] = "minted"
    /\ Goto(c, "logged")
    /\ UNCHANGED <<limitVars, now, accountVars, auditVars, processVars>>

RecordSuccess(c) ==
    /\ pc[c] = "minted"
    /\ Log("login_success", minted[c].id)
    /\ Goto(c, "logged")
    /\ UNCHANGED <<limitVars, now, accountVars, processVars>>

(* The response reaches the client or is lost with its connection.         *)
ReturnToken(c) ==
    /\ pc[c] = "logged"
    /\ token' \in {token, [token EXCEPT ![c] = minted[c]]}
    /\ minted' = [minted EXCEPT ![c] = NoToken]
    /\ Goto(c, "idle")
    /\ UNCHANGED <<limitVars, now, secret, made, shown, fresh, auditVars, processVars>>

-----------------------------------------------------------------------------
(* HandleSetupTOTP: the new secret counts at once, whether or not the      *)
(* response that shows it arrives.                                         *)
UpdateTOTPSecret(c) ==
    /\ pc[c] = "setup"
    /\ fresh < MaxFresh
    /\ fresh' = fresh + 1
    /\ secret' = fresh'
    /\ made' = [made EXCEPT ![c] = fresh']
    /\ Goto(c, "stored")
    /\ UNCHANGED <<limitVars, now, minted, token, shown, auditVars, processVars>>

ReturnSecret(c) ==
    /\ pc[c] = "stored"
    /\ shown' \in {shown, [shown EXCEPT ![c] = @ \cup {made[c]}]}
    /\ made' = [made EXCEPT ![c] = 0]
    /\ Goto(c, "idle")
    /\ UNCHANGED <<limitVars, now, minted, token, secret, fresh, auditVars, processVars>>

-----------------------------------------------------------------------------
Quiet == UNCHANGED <<pc, accountVars, auditVars, processVars>>

CleanupAll == Cleanup /\ UNCHANGED <<loginLimits, loginAdmitted>> /\ Quiet
CleanupLogin == Login!Cleanup /\ UNCHANGED <<limits, admitted>> /\ Quiet

Clock ==
    /\ now < MaxTime
    /\ Tick /\ Login!Tick
    /\ Quiet

(* main, on a signal: the log is closed while the server still serves.     *)
CloseLog ==
    /\ open /\ restarts < MaxRestarts
    /\ open' = FALSE
    /\ UNCHANGED <<limitVars, now, pc, accountVars, auditVars, boot, restarts>>

(* Limits, secrets and the log's memory are gone with the process, tokens  *)
(* stay good (JWT_SECRET is configuration), the file stays and is appended.*)
Restart ==
    /\ restarts < MaxRestarts
    /\ LimiterForget /\ Login!LimiterForget
    /\ pc' = [c \in Clients |-> "idle"]
    /\ minted' = [c \in Clients |-> NoToken]
    /\ made' = [c \in Clients |-> 0]
    /\ secret' = 0
    /\ entries' = <<>>
    /\ open' = TRUE /\ boot' = Len(file) /\ restarts' = restarts + 1
    /\ UNCHANGED <<token, shown, fresh, file, missed>>

Next ==
    \/ \E c \in Clients :
          \/ Request(c) \/ LimitLogin(c)
          \/ ValidatePassword(c) \/ GetUser(c) \/ RecordSuccess(c) \/ ReturnToken(c)
          \/ UpdateTOTPSecret(c) \/ ReturnSecret(c)
    \/ CleanupAll \/ CleanupLogin \/ Clock \/ CloseLog \/ Restart

Spec == Init /\ [][Next]_accessVars

-----------------------------------------------------------------------------
(* Both limiters keep the budget of RateLimiter for what passes them, with *)
(* requests of all kinds and logins interleaved and shared addresses.      *)
Budgets == TwoWindowBudget /\ Login!TwoWindowBudget

(* Nobody is refused who has not used up the budget of its address: being  *)
(* refused by one limiter costs nothing at the other one behind it.        *)
RefusalsAreEarned == RefusedOnlyWhenSpent /\ Login!RefusedOnlyWhenSpent

(* A token that a client holds is on disk, unless its login was answered   *)
(* while the process was going down.                                       *)
TokensAreRecorded ==
    \A c \in Clients : token[c] # NoToken /\ token[c].id \notin missed =>
        \E i \in 1..Len(file) :
            file[i] = [what |-> "login_success", token |-> token[c].id]

(* What /api/audit shows: the newest entries since the process started, at *)
(* most MaxSize, none missing in between.                                  *)
RecentIsTail ==
    LET n == Len(file) - boot IN
    open => entries = SubSeq(file, Len(file) - (IF n < MaxSize THEN n ELSE MaxSize) + 1, Len(file))

(* The audit trail: a token is recorded before it is handed out, whatever  *)
(* crashed or was lost in between, and memory shows the end of the file;   *)
(* only logins between the signal and the end of the process escape it.    *)
AuditTrail == TokensAreRecorded /\ RecentIsTail
==============================================================================
