--------------------------------- MODULE Ykman ---------------------------------
(***************************************************************************)
(* The ykman transport (transport/ykman.go): the construction with its     *)
(* version probe, ChallengeResponse and Serial, each of which runs one     *)
(* subprocess under a context.                                             *)
(*                                                                         *)
(* The subprocess, the user's touch and os/exec's Start, Wait, Kill and    *)
(* WaitDelay are external: the tool may print anything, fail, hang, or     *)
(* leave behind a process that keeps its output pipes open.                *)
(***************************************************************************)
EXTENDS Integers, Sequences, FiniteSets

CONSTANTS
  Binaries,    \* installed ykman executables, by absolute path
  Relative,    \* a path with a slash that is not absolute
  Version,     \* the x.y.z each prints, or None when it prints none
  MinVersion,  \* minYkmanVersion
  Devices,     \* YubiKeys
  Challenges,  \* challenges
  Junk,        \* 40 hex characters that are not the response
  None,
  MaxOutput,   \* bound: tokens a tool prints
  MaxCalls     \* bound: calls of a behaviour

Triples == Nat \X Nat \X Nat

(* What the slot of a YubiKey answers to a challenge.                      *)
Responses == [dev : Devices, slot : 1..3, challenge : Challenges]

(* A whitespace-separated token of output: 40 hex characters in one case,  *)
(* an x.y.z, the serial number of a YubiKey, or any other word.            *)
Tokens ==
  [kind : {"hex"}, upper : BOOLEAN, val : Responses \cup {Junk}]
    \cup [kind : {"version"}, upper : {FALSE}, val : Triples]
    \cup [kind : {"serial"}, upper : {FALSE}, val : Devices]
    \cup [kind : {"word"}, upper : {FALSE}, val : {None}]

ASSUME YkmanAssumption ==
  /\ Version \in [Binaries -> Triples \cup {None}]
  /\ MinVersion \in Triples
  /\ None \notin Binaries \cup Devices \cup Triples \cup Responses \cup {Junk}
  /\ Relative \notin Binaries \cup {None}
  /\ None \notin Tokens
  /\ MaxOutput \in Nat
  /\ MaxCalls \in Nat

VARIABLES
  lookup,      \* what $PATH resolves "ykman" to, or None
  here,        \* what Relative leads to from the working directory, or None
  installed,   \* the executables that exist
  tool,        \* the path of the ready transport, or None
  inserted,    \* the YubiKey that is plugged in, or None
  pc,          \* where the call is
  cmd,         \* [name, bin, exe, slot, challenge] of the command: bin is its
               \* path, exe the executable that was started
  ctxDone,     \* its context is cancelled or past its deadline
  child,       \* the subprocess: "none", "running", "ok" or "failed"
  killed,      \* Cancel has signalled it
  held,        \* someone still has its output pipes open
  touched,     \* the user has touched the key for this call
  stdout,      \* what it has printed, as whitespace-separated tokens
  stderr,      \* the kind of its error text
  runErr,      \* what Run returned
  ret, answer, \* the results
  calls        \* calls made

outside == <<lookup, here, installed, inserted>>
process == <<child, killed, held, touched, stdout, stderr>>
results == <<tool, ret, answer>>
vars == <<lookup, here, installed, tool, inserted, pc, cmd, ctxDone, child,
          killed, held, touched, stdout, stderr, runErr, ret, answer, calls>>

otpSlotValid(slot) == slot \in {1, 2}

Hex(val, upper) == [kind |-> "hex", val |-> val, upper |-> upper]
Plain(kind, val) == [kind |-> kind, val |-> val, upper |-> FALSE]

isHex40(tok) == tok.kind = "hex"

NoCommand == [name |-> "none", bin |-> None, exe |-> None, slot |-> 0,
              challenge |-> None]

-----------------------------------------------------------------------------
(* Pure parts *)

(* The first component that differs decides.                               *)
versionLess(a, b) ==
  \E i \in 1..3 : a[i] < b[i] /\ \A k \in 1..(i - 1) : a[k] = b[k]

First(S) == CHOOSE k \in S : \A l \in S : k <= l

(* The first x.y.z of the output, or None.                                 *)
parseYkmanVersion(out) ==
  LET found == {k \in DOMAIN out : out[k].kind = "version"}
  IN  IF found = {} THEN None ELSE out[First(found)].val

lower(tok) == [tok EXCEPT !.upper = FALSE]

(* Mutant: the first candidate is taken.                                   *)
extractFirstHex(out) ==
  LET found == {k \in DOMAIN out : isHex40(out[k])}
  IN  IF found = {} THEN None ELSE lower(out[First(found)])

(* The only 40-hex token of the output in lower case, or None.             *)
extractResponseHex(out) ==
  LET found == {k \in DOMAIN out : isHex40(out[k])}
  IN  IF \E k \in found : found = {k} THEN lower(out[First(found)]) ELSE None

(* Its 20 bytes, or None: only 40 lower-case characters are accepted.      *)
decodeResponse(tok) ==
  IF tok = None THEN None ELSE IF tok.upper THEN None ELSE tok.val

(* What the tool can say on stderr, by the texts classifyToolError knows.  *)
StderrKinds == {"touch timeout", "no yubikey", "not configured", "other"}

(* The context as it is now, then the error, then the text.                *)
classifyToolError(err, text) ==
  CASE ctxDone                 -> "ErrTouchTimeout"
    [] err = "exec.Error"      -> "ErrToolNotFound"
    [] text = "touch timeout"  -> "ErrTouchTimeout"
    [] text = "no yubikey"     -> "ErrNoDevice"
    [] text = "not configured" -> "ErrSlotNotConfigured"
    [] OTHER                   -> "ErrToolFailure"

-----------------------------------------------------------------------------
(* Calls *)

Begin ==
  /\ pc = "idle"
  /\ calls < MaxCalls
  /\ calls' = calls + 1
  /\ answer' = None
  /\ child' = "none" /\ killed' = FALSE /\ held' = FALSE /\ touched' = FALSE
  /\ stdout' = <<>> /\ stderr' = "other" /\ runErr' = "none"
  /\ UNCHANGED <<outside, tool>>

Refuse(code) == ret' = code /\ UNCHANGED pc

Run == pc' = "start" /\ ret' = "none"

Paths == Binaries \cup {Relative}

(* What the system runs for a path.                                        *)
Executable(path) == IF path = Relative THEN here ELSE path

(* A bare name (None here) is searched in $PATH; a path with a slash is    *)
(* only looked at, and stays as it was given.                              *)
resolveToolPath(path) ==
  IF path = None THEN lookup
  ELSE IF Executable(path) \in installed THEN path ELSE None

(* Resolve the path once, then probe the version under a timeout.          *)
NewYkmanTransport(path) ==
  /\ tool = None
  /\ Begin
  /\ ctxDone' = FALSE
  /\ cmd' = [NoCommand EXCEPT !.name = "version", !.bin = resolveToolPath(path)]
  /\ IF resolveToolPath(path) = None THEN Refuse("ErrToolNotFound") ELSE Run

(* Mutant: the bare name is looked up again.                               *)
ChallengeResponseLooksUp(slot, challenge) ==
  /\ tool # None
  /\ Begin
  /\ ctxDone' \in BOOLEAN
  /\ cmd' = [name |-> "otp", bin |-> lookup, exe |-> None, slot |-> slot,
             challenge |-> challenge]
  /\ IF ~otpSlotValid(slot) THEN Refuse("ErrSlotNotConfigured")
     ELSE IF ctxDone' THEN Refuse("ctx") ELSE Run

ChallengeResponse(slot, challenge) ==
  /\ tool # None
  /\ Begin
  /\ ctxDone' \in BOOLEAN
  /\ cmd' = [name |-> "otp", bin |-> tool, exe |-> None, slot |-> slot,
             challenge |-> challenge]
  /\ IF ~otpSlotValid(slot) THEN Refuse("ErrSlotNotConfigured")
     ELSE IF ctxDone' THEN Refuse("ctx") ELSE Run

(* Serial, and Present, which is its success.                              *)
Serial ==
  /\ tool # None
  /\ Begin
  /\ ctxDone' \in BOOLEAN
  /\ cmd' = [NoCommand EXCEPT !.name = "list", !.bin = tool]
  /\ Run

-----------------------------------------------------------------------------
(* defaultRunner: exec.CommandContext, WaitDelay, Run *)

(* Start fails with the context's error when that is done, and with a      *)
(* *fs.PathError when there is no executable at its path.                  *)
Start ==
  /\ pc = "start"
  /\ IF ctxDone
     THEN runErr' = "ctx" /\ pc' = "result" /\ UNCHANGED <<child, cmd>>
     ELSE IF Executable(cmd.bin) \notin installed
     THEN runErr' = "fs.PathError" /\ pc' = "result" /\ UNCHANGED <<child, cmd>>
     ELSE /\ child' = "running"
          /\ cmd' = [cmd EXCEPT !.exe = Executable(cmd.bin)]
          /\ pc' = "wait"
          /\ UNCHANGED runErr
  /\ UNCHANGED <<outside, results, ctxDone, killed, held, touched, stdout,
                 stderr, calls>>

(* The context is done while Wait has not seen the process end: it is      *)
(* killed, which also "succeeds" on one that has just exited.              *)
Kill ==
  /\ pc = "wait"
  /\ ctxDone
  /\ ~killed
  /\ killed' = TRUE
  /\ IF child = "running"
     THEN child' = "failed" /\ held' \in BOOLEAN
     ELSE UNCHANGED <<child, held>>
  /\ UNCHANGED <<outside, results, pc, cmd, ctxDone, touched, stdout, stderr,
                 runErr, calls>>

(* Wait sees the end of the process.                                       *)
Reap ==
  /\ pc = "wait"
  /\ child \in {"ok", "failed"}
  /\ runErr' = CASE child = "failed" -> "exit"
                 [] killed           -> "ctx"
                 [] OTHER            -> "none"
  /\ pc' = "drain"
  /\ UNCHANGED <<outside, results, cmd, ctxDone, process, calls>>

(* Its pipes are at their end: everything it printed has been copied.      *)
Drain ==
  /\ pc = "drain"
  /\ ~held
  /\ pc' = "result"
  /\ UNCHANGED <<outside, results, cmd, ctxDone, process, runErr, calls>>

(* Mutant: no WaitDelay is set.                                            *)
NoWaitDelay == FALSE /\ UNCHANGED vars

(* Mutant: the delay is over, the pipes stay open.                         *)
WaitDelayGivesUp ==
  /\ pc = "drain"
  /\ held
  /\ runErr' = IF runErr = "none" THEN "exec.ErrWaitDelay" ELSE runErr
  /\ pc' = "result"
  /\ UNCHANGED <<outside, results, cmd, ctxDone, process, calls>>

(* The pipes are still open after commandWaitDelay: they are closed.       *)
WaitDelay ==
  /\ pc = "drain"
  /\ held
  /\ held' = FALSE
  /\ runErr' = IF runErr = "none" THEN "exec.ErrWaitDelay" ELSE runErr
  /\ pc' = "result"
  /\ UNCHANGED <<outside, results, cmd, ctxDone, child, killed, touched, stdout,
                 stderr, calls>>

-----------------------------------------------------------------------------
(* What becomes of the result *)

Return(code) ==
  /\ pc' = "idle"
  /\ ret' = code
  /\ UNCHANGED <<outside, cmd, ctxDone, process, runErr, calls>>

(* checkVersion: a tool that fails, says no version or one below the floor.*)
FinishVersion ==
  /\ pc = "result"
  /\ cmd.name = "version"
  /\ LET v == parseYkmanVersion(stdout)
         code == CASE runErr # "none"          -> "ErrToolFailure"
                   [] v = None                 -> "ErrToolVersion"
                   [] versionLess(v, MinVersion) -> "ErrToolVersion"
                   [] OTHER                    -> "ready"
     IN  /\ tool' = IF code = "ready" THEN cmd.bin ELSE None
         /\ Return(code)
  /\ UNCHANGED answer

FinishFailed ==
  /\ pc = "result"
  /\ cmd.name \in {"otp", "list"}
  /\ runErr # "none"
  /\ Return(classifyToolError(runErr, stderr))
  /\ UNCHANGED <<tool, answer>>

FinishSerial ==
  /\ pc = "result"
  /\ cmd.name = "list"
  /\ runErr = "none"
  /\ Return(IF stdout = <<>> THEN "ErrNoDevice" ELSE "serial")
  /\ answer' = IF stdout = <<>> THEN None ELSE Head(stdout).val
  /\ UNCHANGED tool

(* No or more than one candidate.                                          *)
BadResponse ==
  /\ pc = "result"
  /\ cmd.name = "otp"
  /\ runErr = "none"
  /\ decodeResponse(extractResponseHex(stdout)) = None
  /\ Return("ErrBadResponse")
  /\ UNCHANGED <<tool, answer>>

(* The decoded response goes into a container, which mlock may refuse.     *)
GoodResponse ==
  /\ pc = "result"
  /\ cmd.name = "otp"
  /\ runErr = "none"
  /\ LET resp == decodeResponse(extractResponseHex(stdout))
     IN  /\ resp # None
         /\ \/ answer' = resp /\ Return("ok")
            \/ answer' = None /\ Return("mlock")
  /\ UNCHANGED tool

-----------------------------------------------------------------------------
(* Environment *)

Touch ==
  /\ child = "running"
  /\ cmd.name = "otp"
  /\ inserted # None
  /\ ~touched
  /\ touched' = TRUE
  /\ UNCHANGED <<outside, results, pc, cmd, ctxDone, child, killed, held, stdout,
                 stderr, runErr, calls>>

TheResponse ==
  [dev |-> inserted, slot |-> cmd.slot, challenge |-> cmd.challenge]

(* What the tool may print: the response once the key was touched, its     *)
(* version, the serials of the devices, and anything else at any time.     *)
Printable ==
  CASE cmd.name = "otp" ->
         {Plain("word", None), Hex(Junk, FALSE)}
           \cup (IF touched THEN {Hex(TheResponse, u) : u \in BOOLEAN} ELSE {})
    [] cmd.name = "version" ->
         {Plain("word", None)}
           \cup {Plain("version", v) : v \in {Version[cmd.exe]} \ {None}}
    [] OTHER -> {Plain("serial", d) : d \in {inserted} \ {None}}

PrintToken ==
  /\ child = "running"
  /\ Len(stdout) < MaxOutput
  /\ \E tok \in Printable : stdout' = Append(stdout, tok)
  /\ UNCHANGED <<outside, results, pc, cmd, ctxDone, child, killed, held,
                 touched, stderr, runErr, calls>>

Exit ==
  /\ child = "running"
  /\ \/ child' = "ok" /\ UNCHANGED stderr
     \/ child' = "failed" /\ stderr' \in StderrKinds
  /\ held' \in BOOLEAN
  /\ UNCHANGED <<outside, results, pc, cmd, ctxDone, killed, touched, stdout,
                 runErr, calls>>

PipesClose ==
  /\ child \in {"ok", "failed"}
  /\ held
  /\ held' = FALSE
  /\ UNCHANGED <<outside, results, pc, cmd, ctxDone, child, killed, touched,
                 stdout, stderr, runErr, calls>>

(* The caller's context ends, or the ten seconds of the probe are over.    *)
ContextDone ==
  /\ pc # "idle"
  /\ ~ctxDone
  /\ ctxDone' = TRUE
  /\ UNCHANGED <<outside, results, pc, cmd, process, runErr, calls>>

(* context.WithTimeout(..., versionProbeTimeout).                          *)
ProbeTimeout == cmd.name = "version" /\ ContextDone

PathChange ==
  /\ lookup' \in (installed \cup {None}) \ {lookup}
  /\ UNCHANGED <<here, installed, inserted, results, pc, cmd, ctxDone, process,
                 runErr, calls>>

(* The program changes its working directory.                              *)
Chdir ==
  /\ here' \in (installed \cup {None}) \ {here}
  /\ UNCHANGED <<lookup, installed, inserted, results, pc, cmd, ctxDone, process,
                 runErr, calls>>

Uninstall ==
  /\ \E b \in installed :
       /\ installed' = installed \ {b}
       /\ lookup' = IF lookup = b THEN None ELSE lookup
  /\ UNCHANGED <<here, inserted, results, pc, cmd, ctxDone, process, runErr,
                 calls>>

-----------------------------------------------------------------------------
(* Specification *)

Init ==
  /\ lookup \in Binaries \cup {None}
  /\ here \in Binaries \cup {None}
  /\ installed = Binaries
  /\ tool = None
  /\ inserted \in Devices \cup {None}
  /\ pc = "idle"
  /\ cmd = NoCommand
  /\ ctxDone = FALSE
  /\ child = "none" /\ killed = FALSE /\ held = FALSE /\ touched = FALSE
  /\ stdout = <<>> /\ stderr = "other" /\ runErr = "none"
  /\ ret = "none" /\ answer = None
  /\ calls = 0

(* The steps of the calling goroutine and of os/exec's.                    *)
Proceed ==
  \/ Start
  \/ Kill
  \/ Reap
  \/ Drain
  \/ WaitDelay
  \/ FinishVersion
  \/ FinishFailed
  \/ FinishSerial
  \/ BadResponse
  \/ GoodResponse

Rest == pc = "idle" /\ UNCHANGED vars

Next ==
  \/ \E path \in Paths \cup {None} : NewYkmanTransport(path)
  \/ \E slot \in 1..3, challenge \in Challenges :
       ChallengeResponse(slot, challenge)
  \/ Serial
  \/ Proceed
  \/ Touch
  \/ PrintToken
  \/ Exit
  \/ PipesClose
  \/ ContextDone
  \/ ProbeTimeout
  \/ PathChange
  \/ Chdir
  \/ Uninstall
  \/ Rest

(* The runtime schedules the goroutines and fires its timers.  Nobody      *)
(* promises a touch, an end of the tool, or of whoever holds its pipes.    *)
Fairness == WF_vars(Proceed) /\ WF_vars(ProbeTimeout)

Spec == Init /\ [][Next]_vars /\ Fairness

-----------------------------------------------------------------------------
(* Properties *)

Codes == {"none", "ready", "serial", "ok", "mlock", "ctx", "ErrToolNotFound",
          "ErrToolFailure", "ErrToolVersion", "ErrSlotNotConfigured",
          "ErrTouchTimeout", "ErrNoDevice", "ErrBadResponse"}

RunErrs == {"none", "ctx", "fs.PathError", "exit", "exec.ErrWaitDelay"}

TypeOK ==
  /\ lookup \in Binaries \cup {None}
  /\ here \in Binaries \cup {None}
  /\ installed \subseteq Binaries
  /\ tool \in Paths \cup {None}
  /\ inserted \in Devices \cup {None}
  /\ pc \in {"idle", "start", "wait", "drain", "result"}
  /\ cmd.name \in {"none", "version", "otp", "list"}
  /\ cmd.bin \in Paths \cup {None}
  /\ cmd.exe \in Binaries \cup {None}
  /\ ctxDone \in BOOLEAN /\ killed \in BOOLEAN
  /\ child \in {"none", "running", "ok", "failed"}
  /\ child = "running" => pc = "wait"
  /\ held \in BOOLEAN
  /\ held => pc \in {"wait", "drain"}
  /\ touched \in BOOLEAN
  /\ touched => cmd.name = "otp"
  /\ stdout \in Seq(Tokens) /\ Len(stdout) <= MaxOutput
  /\ stderr \in StderrKinds
  /\ runErr \in RunErrs
  /\ ret \in Codes
  /\ answer # None => ret \in {"ok", "serial"}
  /\ calls \in 0..MaxCalls

(* A response is accepted only from a tool that ended by itself, was       *)
(* successful and was read to the end of its output, whatever the context  *)
(* did meanwhile; and when the key's response is in that output, nothing   *)
(* else is taken for it.  In turn, a response that is there is found, in   *)
(* upper or lower case, alone or among other words: output is refused only *)
(* when it has no or more than one candidate.                              *)
AnswerIsGenuine ==
  /\ ret = "ok" =>
       /\ child = "ok" /\ ~killed /\ runErr = "none"
       /\ (\E k \in DOMAIN stdout :
             isHex40(stdout[k]) /\ stdout[k].val = TheResponse)
            => answer = TheResponse
  /\ ret = "ErrBadResponse" =>
       Cardinality({k \in DOMAIN stdout : isHex40(stdout[k])}) # 1

(* "A later $PATH change cannot redirect the invocation": what runs is the *)
(* executable whose version was checked when the transport was made, unless*)
(* the transport was given a relative path, which is followed again, from  *)
(* the working directory of the moment, whenever it is used.               *)
ToolIsPinned ==
  [][child' = "running" /\ child # "running" /\ cmd.name # "version"
       /\ tool # Relative =>
       /\ cmd'.exe = tool
       /\ Version[cmd'.exe] # None
       /\ ~versionLess(Version[cmd'.exe], MinVersion)]_vars

(* A call returns when its context is done, with nobody touching the key, *)
(* a tool that hangs, or a process that keeps its pipes open; it returns   *)
(* when its tool has ended, without any help of the context; and the       *)
(* construction always ends, though it has no context of the caller.       *)
CallsReturn ==
  (ctxDone \/ child \in {"ok", "failed"} \/ cmd.name = "version")
    ~> pc = "idle"
=============================================================================
