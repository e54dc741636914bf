---------------------------- MODULE YkmanProofs ----------------------------
(***************************************************************************)
(* Theorems about Ykman for every value of its constants: type             *)
(* correctness, what an accepted response comes from, and that the         *)
(* executable which runs is the one whose version was checked.  The        *)
(* argument is the inductive invariant IInv.                               *)
(***************************************************************************)
EXTENDS Ykman, FiniteSetTheorems, WellFoundedInduction, TLAPS

Commands == [name      : {"none", "version", "otp", "list"},
             bin       : Paths \cup {None},
             exe       : Binaries \cup {None},
             slot      : 0..3,
             challenge : Challenges \cup {None}]

Types ==
  /\ lookup \in Binaries \cup {None}
  /\ here \in Binaries \cup {None}
  /\ installed \subseteq Binaries
  /\ tool \in Paths \cup {None}
  /\ inserted \in Devices \cup {None}
  /\ pc \in {"idle", "start", "wait", "drain", "result"}
  /\ cmd \in Commands
  /\ ctxDone \in BOOLEAN
  /\ child \in {"none", "running", "ok", "failed"}
  /\ killed \in BOOLEAN
  /\ held \in BOOLEAN
  /\ touched \in BOOLEAN
  /\ stdout \in Seq(Tokens)
  /\ Len(stdout) <= MaxOutput
  /\ stderr \in StderrKinds
  /\ runErr \in RunErrs
  /\ ret \in Codes
  /\ calls \in 0..MaxCalls

Accepted(bin) ==
  /\ bin \in Binaries
  /\ Version[bin] # None
  /\ ~versionLess(Version[bin], MinVersion)

(* The tool of a ready transport had its version accepted, unless its path *)
(* is relative; everything but the probe runs it, and what runs is what    *)
(* the path leads to.                                                      *)
Command ==
  /\ tool \in Binaries => Accepted(tool)
  /\ pc # "idle" =>
       /\ cmd.name # "none"
       /\ cmd.bin \in Paths
       /\ child # "none" =>
            /\ cmd.exe \in Binaries
            /\ cmd.bin # Relative => cmd.exe = cmd.bin
       /\ cmd.name \in {"otp", "list"} => cmd.bin = tool
       /\ cmd.name = "otp" => cmd.slot \in 1..3 /\ cmd.challenge \in Challenges

(* The process runs while Run waits for it, and Run returns without error  *)
(* only for one that ended by itself and well.                             *)
Process ==
  /\ pc = "start" => child = "none"
  /\ child = "running" => pc = "wait"
  /\ held => pc \in {"wait", "drain"}
  /\ touched => cmd.name = "otp" /\ inserted \in Devices
  /\ pc \in {"drain", "result"} /\ runErr = "none" => child = "ok" /\ ~killed

(* The version a probe prints is that of the executable it runs.           *)
Output ==
  /\ pc = "start" => stdout = <<>>
  /\ cmd.name = "version" =>
       \A k \in DOMAIN stdout :
         stdout[k].kind = "version" => stdout[k].val = Version[cmd.exe]

Candidates == {k \in DOMAIN stdout : isHex40(stdout[k])}

(* What the results say of the process and of what it printed.             *)
Outcome ==
  /\ pc # "idle" => ret = "none" /\ answer = None
  /\ answer # None => ret \in {"ok", "serial"}
  /\ ret = "ok" =>
       /\ child = "ok" /\ ~killed /\ runErr = "none"
       /\ \A k \in Candidates : stdout[k].val = answer
  /\ ret = "ErrBadResponse" => ~ \E k \in Candidates : Candidates = {k}

IInv == Types /\ Command /\ Process /\ Output /\ Outcome

-----------------------------------------------------------------------------
(* Facts about the operators of the model *)

(* A set of indices that is not empty has a first.                         *)
LEMMA FirstIs ==
  ASSUME NEW S \in SUBSET Nat, S # {}
  PROVE  First(S) \in S
<1> DEFINE R == OpToRel(<, Nat)
<1>1. S \subseteq Nat
  OBVIOUS
<1>2. \E k \in S : \A l \in S : <<l, k>> \notin R
  <2>1. IsWellFoundedOn(R, Nat)
    BY NatLessThanWellFounded
  <2> HIDE DEF R
  <2> QED
    BY <1>1, <2>1, WFMin, Zenon
<1>3. PICK k \in S : \A l \in S : <<l, k>> \notin R
  BY <1>2
<1>4. \A l \in S : ~(l < k)
  BY <1>1, <1>3 DEF OpToRel
<1>5. \A l \in S : k <= l
  BY <1>1, <1>4
<1> QED
  BY <1>5 DEF First

(* The indices of a sequence of tokens.                                    *)
LEMMA IndicesOf ==
  ASSUME NEW out \in Seq(Tokens)
  PROVE  /\ DOMAIN out = 1..Len(out) /\ Len(out) \in Nat
         /\ DOMAIN out \subseteq Nat
         /\ \A k \in DOMAIN out : out[k] \in Tokens
OBVIOUS

(* The version of an output is that of one of its tokens.                  *)
LEMMA VersionIs ==
  ASSUME NEW out \in Seq(Tokens), parseYkmanVersion(out) # None
  PROVE  \E k \in DOMAIN out : /\ out[k].kind = "version"
                               /\ out[k].val = parseYkmanVersion(out)
<1> DEFINE found == {k \in DOMAIN out : out[k].kind = "version"}
<1>1. found # {} /\ found \in SUBSET Nat
  BY IndicesOf DEF parseYkmanVersion
<1>2. First(found) \in found
  <2> HIDE DEF found
  <2> QED
    BY <1>1, FirstIs
<1> QED
  BY <1>1, <1>2 DEF parseYkmanVersion

(* The response of an output is its only candidate's, and there is none    *)
(* just when there is not one candidate.                                   *)
LEMMA ResponseIs ==
  ASSUME NEW out \in Seq(Tokens),
         NEW found, found = {k \in DOMAIN out : isHex40(out[k])},
         NEW resp, resp = decodeResponse(extractResponseHex(out))
  PROVE  /\ resp = None => ~ \E k \in found : found = {k}
         /\ resp # None => \A k \in found : out[k].val = resp
<1>1. CASE ~ \E k \in found : found = {k}
  BY <1>1 DEF extractResponseHex, decodeResponse
<1>2. CASE \E k \in found : found = {k}
  <2>1. PICK k \in found : found = {k}
    BY <1>2
  <2>2. First(found) = k
    BY <2>1, IndicesOf, FirstIs
  <2>3. k \in DOMAIN out /\ isHex40(out[k]) /\ out[k] \in Tokens
    BY <2>1, IndicesOf
  <2>7. out[k].val # None
    BY <2>3, YkmanAssumption DEF Tokens, isHex40
  <2>4. /\ lower(out[k]) \in Tokens
        /\ lower(out[k]).upper = FALSE /\ lower(out[k]).val = out[k].val
    BY <2>3 DEF lower, Tokens
  <2>5. extractResponseHex(out) = lower(out[k])
    BY <1>2, <2>2 DEF extractResponseHex
  <2>6. resp = out[k].val
    BY <2>4, <2>5, YkmanAssumption DEF decodeResponse
  <2> QED
    BY <2>1, <2>3, <2>6, <2>7
<1> QED
  BY <1>1, <1>2

(* One token more: the tokens of the longer output.                        *)
LEMMA Appended ==
  ASSUME NEW out \in Seq(Tokens), NEW tok \in Tokens
  PROVE  /\ Append(out, tok) \in Seq(Tokens)
         /\ Len(Append(out, tok)) = Len(out) + 1
         /\ \A k \in DOMAIN Append(out, tok) :
              \/ k \in DOMAIN out /\ Append(out, tok)[k] = out[k]
              \/ Append(out, tok)[k] = tok
OBVIOUS

(* The tokens the model makes.                                             *)
LEMMA MadeTokens ==
  /\ \A v \in Responses \cup {Junk}, u \in BOOLEAN : Hex(v, u) \in Tokens
  /\ \A v \in Triples : Plain("version", v) \in Tokens
  /\ \A d \in Devices : Plain("serial", d) \in Tokens
  /\ Plain("word", None) \in Tokens
<1>1. ASSUME NEW v \in Responses \cup {Junk}, NEW u \in BOOLEAN
      PROVE  Hex(v, u) \in Tokens
  BY DEF Hex, Tokens
<1>2. ASSUME NEW v \in Triples PROVE Plain("version", v) \in Tokens
  BY DEF Plain, Tokens
<1>3. ASSUME NEW d \in Devices PROVE Plain("serial", d) \in Tokens
  BY DEF Plain, Tokens
<1>4. Plain("word", None) \in Tokens
  BY DEF Plain, Tokens
<1> QED
  BY <1>1, <1>2, <1>3, <1>4

(* What a tool prints is a token, and its version when it says one.        *)
LEMMA PrintedIs ==
  ASSUME IInv, PrintToken, NEW tok \in Printable
  PROVE  /\ tok \in Tokens
         /\ cmd.name = "version" /\ tok.kind = "version" =>
              tok.val = Version[cmd.exe]
<1>1. CASE cmd.name = "otp"
  <2>1. touched => TheResponse \in Responses
    BY <1>1 DEF IInv, Types, Command, Process, PrintToken, TheResponse,
        Responses
  <2>2. \/ tok = Plain("word", None)
        \/ tok = Hex(Junk, FALSE)
        \/ touched /\ \E u \in BOOLEAN : tok = Hex(TheResponse, u)
    BY <1>1 DEF Printable
  <2> QED
    BY <1>1, <2>1, <2>2, MadeTokens
<1>2. CASE cmd.name = "version"
  <2>1. cmd.exe \in Binaries
    BY DEF IInv, Process, Command, PrintToken
  <2>2. Version[cmd.exe] \in Triples \cup {None}
    BY <2>1, YkmanAssumption
  <2>3. \/ tok = Plain("word", None)
        \/ /\ Version[cmd.exe] \in Triples
           /\ tok = Plain("version", Version[cmd.exe])
    BY <1>2, <2>2 DEF Printable
  <2>4. tok \in Tokens
    BY <2>3, MadeTokens
  <2> QED
    BY <2>3, <2>4 DEF Plain
<1>3. CASE cmd.name \notin {"otp", "version"}
  <2>1. \E d \in Devices : tok = Plain("serial", d)
    BY <1>3 DEF IInv, Types, Printable
  <2> QED
    BY <1>3, <2>1, MadeTokens
<1> QED
  BY <1>1, <1>2, <1>3

-----------------------------------------------------------------------------
(* The steps *)

(* The construction probes what $PATH or the path it is given leads to.    *)
LEMMA NewYkmanTransportStep ==
  ASSUME IInv, NEW path \in Paths \cup {None}, NewYkmanTransport(path)
  PROVE  IInv'
<1>0. /\ resolveToolPath(path) \in Paths \cup {None}
      /\ pc' = "start" => resolveToolPath(path) # None
  BY YkmanAssumption DEF IInv, Types, resolveToolPath, Executable, Paths,
      NewYkmanTransport, Refuse, Begin
<1>1. Types'
  <2>1. cmd' \in Commands
    <3>1. cmd' = [name |-> "version", bin |-> resolveToolPath(path),
                  exe |-> None, slot |-> 0, challenge |-> None]
      BY DEF NewYkmanTransport, NoCommand
    <3> QED
      BY <3>1, <1>0 DEF Commands
  <2>2. stdout' \in Seq(Tokens) /\ Len(stdout') <= MaxOutput
    <3>1. stdout' = <<>>
      BY DEF NewYkmanTransport, Begin
    <3> QED
      BY <3>1, YkmanAssumption
  <2>3. ctxDone' \in BOOLEAN /\ pc' \in {"idle", "start"}
    BY DEF NewYkmanTransport, Begin, Refuse, Run
  <2>4. /\ ret' \in Codes /\ runErr' = "none" /\ stderr' = "other"
        /\ child' = "none" /\ killed' = FALSE /\ held' = FALSE
        /\ touched' = FALSE
    BY DEF NewYkmanTransport, Begin, Refuse, Run, Codes
  <2>5. calls' \in 0..MaxCalls
    BY YkmanAssumption DEF IInv, Types, NewYkmanTransport, Begin
  <2> QED
    BY <2>1, <2>2, <2>3, <2>4, <2>5 DEF IInv, Types, StderrKinds, RunErrs,
        NewYkmanTransport, Begin, outside
<1>2. Command'
  <2>1. /\ cmd'.name = "version" /\ cmd'.bin = resolveToolPath(path)
        /\ child' = "none" /\ tool' = tool
    BY DEF NewYkmanTransport, NoCommand, Begin
  <2>2. pc' \in {"idle", "start"}
    BY DEF NewYkmanTransport, Begin, Refuse, Run
  <2>3. tool \in Binaries => Accepted(tool)
    BY DEF IInv, Command
  <2> QED
    BY <1>0, <2>1, <2>2, <2>3 DEF Command, Accepted
<1>3. Process'
  BY DEF IInv, Types, Process, Commands, NewYkmanTransport, Begin, Refuse,
      Run, NoCommand, outside, process, results
<1>4. Output'
  BY DEF IInv, Types, Output, NewYkmanTransport, Begin, Refuse, Run,
      NoCommand, outside, process, results
<1>5. Outcome'
  BY DEF IInv, Types, Outcome, Candidates, isHex40, Process,
      NewYkmanTransport, Begin, Refuse, Run, NoCommand, outside, process,
      results
<1> QED
  BY <1>1, <1>2, <1>3, <1>4, <1>5 DEF IInv

(* A challenge goes to the tool of the transport.                          *)
LEMMA ChallengeResponseStep ==
  ASSUME IInv, NEW slot \in 1..3, NEW challenge \in Challenges,
         ChallengeResponse(slot, challenge)
  PROVE  IInv'
<1>1. Types'
  <2>1. cmd' \in Commands
    BY DEF ChallengeResponse, Commands, IInv, Types
  <2>2. stdout' \in Seq(Tokens) /\ Len(stdout') <= MaxOutput
    <3>1. stdout' = <<>>
      BY DEF ChallengeResponse, Begin
    <3> QED
      BY <3>1, YkmanAssumption
  <2>3. ctxDone' \in BOOLEAN /\ pc' \in {"idle", "start"}
    BY DEF ChallengeResponse, Begin, Refuse, Run
  <2>4. /\ ret' \in Codes /\ runErr' = "none" /\ stderr' = "other"
        /\ child' = "none" /\ killed' = FALSE /\ held' = FALSE
        /\ touched' = FALSE
    BY DEF ChallengeResponse, Begin, Refuse, Run, Codes
  <2>5. calls' \in 0..MaxCalls
    BY YkmanAssumption DEF IInv, Types, ChallengeResponse, Begin
  <2> QED
    BY <2>1, <2>2, <2>3, <2>4, <2>5 DEF IInv, Types, StderrKinds, RunErrs,
        ChallengeResponse, Begin, outside
<1>2. Command'
  BY YkmanAssumption DEF IInv, Types, Command, Accepted, Commands,
      ChallengeResponse, Begin, Refuse, Run, outside, process, results
<1>3. Process'
  BY DEF IInv, Types, Process, Commands, ChallengeResponse, Begin, Refuse,
      Run, outside, process, results
<1>4. Output'
  BY DEF IInv, Types, Output, ChallengeResponse, Begin, Refuse, Run,
      outside, process, results
<1>5. Outcome'
  BY DEF IInv, Types, Outcome, Candidates, isHex40, Process,
      ChallengeResponse, Begin, Refuse, Run, outside, process, results
<1> QED
  BY <1>1, <1>2, <1>3, <1>4, <1>5 DEF IInv

(* So does the question for the serial number.                             *)
LEMMA SerialStep ==
  ASSUME IInv, Serial
  PROVE  IInv'
<1>1. Types'
  <2>1. cmd' \in Commands
    <3>1. cmd' = [name |-> "list", bin |-> tool, exe |-> None, slot |-> 0,
                  challenge |-> None]
      BY DEF Serial, NoCommand
    <3> QED
      BY <3>1 DEF IInv, Types, Commands
  <2>2. stdout' \in Seq(Tokens) /\ Len(stdout') <= MaxOutput
    <3>1. stdout' = <<>>
      BY DEF Serial, Begin
    <3> QED
      BY <3>1, YkmanAssumption
  <2>3. ctxDone' \in BOOLEAN /\ pc' \in {"idle", "start"}
    BY DEF Serial, Begin, Refuse, Run
  <2>4. /\ ret' \in Codes /\ runErr' = "none" /\ stderr' = "other"
        /\ child' = "none" /\ killed' = FALSE /\ held' = FALSE
        /\ touched' = FALSE
    BY DEF Serial, Begin, Refuse, Run, Codes
  <2>5. calls' \in 0..MaxCalls
    BY YkmanAssumption DEF IInv, Types, Serial, Begin
  <2> QED
    BY <2>1, <2>2, <2>3, <2>4, <2>5 DEF IInv, Types, StderrKinds, RunErrs,
        Serial, Begin, outside
<1>2. Command'
  BY YkmanAssumption DEF IInv, Types, Command, Accepted, Commands, Serial,
      Begin, Refuse, Run, NoCommand, outside, process, results
<1>3. Process'
  BY DEF IInv, Types, Process, Commands, Serial, Begin, Refuse, Run,
      NoCommand, outside, process, results
<1>4. Output'
  BY DEF IInv, Types, Output, Serial, Begin, Refuse, Run, NoCommand,
      outside, process, results
<1>5. Outcome'
  BY DEF IInv, Types, Outcome, Candidates, isHex40, Process, Serial, Begin,
      Refuse, Run, NoCommand, outside, process, results
<1> QED
  BY <1>1, <1>2, <1>3, <1>4, <1>5 DEF IInv

(* Start, or its error.                                                    *)
LEMMA StartStep ==
  ASSUME IInv, Start
  PROVE  IInv'
<1>0. child' # "none" => cmd.bin \in Paths /\ Executable(cmd.bin) \in Binaries
  BY DEF IInv, Types, Command, Process, Start
<1>1. Types'
  <2>1. cmd' \in Commands
    BY <1>0 DEF IInv, Types, Commands, Process, Start
  <2>2. runErr' \in RunErrs
    BY DEF IInv, Types, RunErrs, Start
  <2>3. child' \in {"none", "running", "ok", "failed"}
        /\ pc' \in {"wait", "result"}
    BY DEF IInv, Types, Start
  <2> QED
    BY <2>1, <2>2, <2>3 DEF IInv, Types, Start, outside, results
<1>2. Command'
  <2>1. cmd.bin # Relative => Executable(cmd.bin) = cmd.bin
    BY DEF Executable
  <2>2. /\ cmd'.name = cmd.name /\ cmd'.bin = cmd.bin /\ cmd'.slot = cmd.slot
        /\ cmd'.challenge = cmd.challenge
        /\ child' # "none" => cmd'.exe = Executable(cmd.bin)
    BY DEF IInv, Types, Commands, Process, Start
  <2> QED
    BY <1>0, <2>1, <2>2 DEF IInv, Command, Accepted, Start, results
<1>3. Process'
  BY DEF IInv, Types, Process, Commands, Start, outside, process, results
<1>4. Output'
  BY DEF IInv, Types, Output, Start, outside, process, results
<1>5. Outcome'
  BY DEF IInv, Types, Outcome, Candidates, isHex40, Process, Start, outside,
      process, results
<1> QED
  BY <1>1, <1>2, <1>3, <1>4, <1>5 DEF IInv

(* os/exec kills the process of a context that is done.                    *)
LEMMA KillStep ==
  ASSUME IInv, Kill
  PROVE  IInv'
<1>1. Types'
  BY YkmanAssumption DEF IInv, Types, Commands, Command, Process, Kill,
      outside, process, results
<1>2. Command'
  BY YkmanAssumption DEF IInv, Types, Command, Accepted, Commands, Kill,
      outside, process, results
<1>3. Process'
  BY DEF IInv, Types, Process, Commands, Kill, outside, process, results
<1>4. Output'
  BY DEF IInv, Types, Output, Kill, outside, process, results
<1>5. Outcome'
  BY DEF IInv, Types, Outcome, Candidates, isHex40, Process, Kill, outside,
      process, results
<1> QED
  BY <1>1, <1>2, <1>3, <1>4, <1>5 DEF IInv

(* Wait returns without error for a process that ended well.               *)
LEMMA ReapStep ==
  ASSUME IInv, Reap
  PROVE  IInv'
<1>1. Types'
  BY DEF IInv, Types, RunErrs, Reap, outside, process, results
<1>2. Command'
  BY YkmanAssumption DEF IInv, Types, Command, Accepted, Commands, Reap,
      outside, process, results
<1>3. Process'
  BY DEF IInv, Types, Process, Commands, Reap, outside, process, results
<1>4. Output'
  BY DEF IInv, Types, Output, Reap, outside, process, results
<1>5. Outcome'
  BY DEF IInv, Types, Outcome, Candidates, isHex40, Process, Reap, outside,
      process, results
<1> QED
  BY <1>1, <1>2, <1>3, <1>4, <1>5 DEF IInv

(* Everything printed has been copied.                                     *)
LEMMA DrainStep ==
  ASSUME IInv, Drain
  PROVE  IInv'
<1>1. Types'
  BY YkmanAssumption DEF IInv, Types, Commands, Command, Process, Drain,
      outside, process, results
<1>2. Command'
  BY YkmanAssumption DEF IInv, Types, Command, Accepted, Commands, Drain,
      outside, process, results
<1>3. Process'
  BY DEF IInv, Types, Process, Commands, Drain, outside, process, results
<1>4. Output'
  BY DEF IInv, Types, Output, Drain, outside, process, results
<1>5. Outcome'
  BY DEF IInv, Types, Outcome, Candidates, isHex40, Process, Drain, outside,
      process, results
<1> QED
  BY <1>1, <1>2, <1>3, <1>4, <1>5 DEF IInv

(* Or the delay is over, which is an error.                                *)
LEMMA WaitDelayStep ==
  ASSUME IInv, WaitDelay
  PROVE  IInv'
<1>1. Types'
  <2>1. runErr' \in RunErrs
    BY DEF IInv, Types, RunErrs, WaitDelay
  <2> QED
    BY <2>1 DEF IInv, Types, WaitDelay, outside, results
<1>2. Command'
  BY YkmanAssumption DEF IInv, Types, Command, Accepted, Commands,
      WaitDelay, outside, process, results
<1>3. Process'
  BY DEF IInv, Types, Process, Commands, WaitDelay, outside, process,
      results
<1>4. Output'
  BY DEF IInv, Types, Output, WaitDelay, outside, process, results
<1>5. Outcome'
  BY DEF IInv, Types, Outcome, Candidates, isHex40, Process, WaitDelay,
      outside, process, results
<1> QED
  BY <1>1, <1>2, <1>3, <1>4, <1>5 DEF IInv

(* A probe that answers makes the transport ready, or not.                 *)
LEMMA FinishVersionStep ==
  ASSUME IInv, FinishVersion
  PROVE  IInv'
<1>1. Types'
  <2>1. ret' \in Codes
    BY DEF FinishVersion, Return, Codes
  <2>2. tool' \in Paths \cup {None}
    BY DEF IInv, Types, Commands, FinishVersion
  <2> QED
    BY <2>1, <2>2 DEF IInv, Types, FinishVersion, Return, outside, process
<1>2. Command'
  <2>1. ASSUME tool' \in Binaries PROVE Accepted(tool')
    <3> DEFINE v == parseYkmanVersion(stdout)
    <3>1. /\ tool' = cmd.bin /\ cmd.name = "version" /\ v # None
          /\ ~versionLess(v, MinVersion) /\ pc = "result"
      BY <2>1, YkmanAssumption DEF FinishVersion
    <3>2. v = Version[cmd.exe]
      <4>1. stdout \in Seq(Tokens)
        BY DEF IInv, Types
      <4>2. PICK k \in DOMAIN stdout : /\ stdout[k].kind = "version"
                                      /\ stdout[k].val = v
        BY <3>1, <4>1, VersionIs
      <4> HIDE DEF v
      <4> QED
        BY <3>1, <4>2 DEF IInv, Output
    <3>3. child = "ok"
      BY <3>1, <2>1, YkmanAssumption DEF IInv, Process, FinishVersion
    <3>4. cmd.exe = cmd.bin
      BY <2>1, <3>1, <3>3, YkmanAssumption DEF IInv, Command
    <3> HIDE DEF v
    <3> QED
      BY <2>1, <3>1, <3>2, <3>4 DEF Accepted
  <2> QED
    BY <2>1 DEF Command, FinishVersion, Return
<1>3. Process'
  BY DEF IInv, Types, Process, Commands, FinishVersion, Return, outside,
      process, results
<1>4. Output'
  BY DEF IInv, Types, Output, FinishVersion, Return, outside, process,
      results
<1>5. Outcome'
  BY DEF IInv, Types, Outcome, Candidates, isHex40, Process, FinishVersion,
      Return, outside, process, results
<1> QED
  BY <1>1, <1>2, <1>3, <1>4, <1>5 DEF IInv

(* A tool that failed.                                                     *)
LEMMA FinishFailedStep ==
  ASSUME IInv, FinishFailed
  PROVE  IInv'
<1>1. Types'
  <2>1. ret' \in Codes
    BY DEF FinishFailed, Return, classifyToolError, Codes
  <2> QED
    BY <2>1 DEF IInv, Types, FinishFailed, Return, outside, process
<1>2. Command'
  BY YkmanAssumption DEF IInv, Types, Command, Accepted, Commands,
      FinishFailed, Return, classifyToolError, outside, process,
      results
<1>3. Process'
  BY DEF IInv, Types, Process, Commands, FinishFailed, Return,
      classifyToolError, outside, process, results
<1>4. Output'
  BY DEF IInv, Types, Output, FinishFailed, Return, classifyToolError,
      outside, process, results
<1>5. Outcome'
  BY DEF IInv, Types, Outcome, Candidates, isHex40, Process, FinishFailed,
      Return, classifyToolError, outside, process, results
<1> QED
  BY <1>1, <1>2, <1>3, <1>4, <1>5 DEF IInv

(* A tool that printed serial numbers.                                     *)
LEMMA FinishSerialStep ==
  ASSUME IInv, FinishSerial
  PROVE  IInv'
<1>1. Types'
  <2>1. ret' \in Codes
    BY DEF FinishSerial, Return, Codes
  <2>2. tool' \in Paths \cup {None}
    BY DEF IInv, Types, Commands, FinishSerial
  <2> QED
    BY <2>1, <2>2 DEF IInv, Types, FinishSerial, Return, outside, process
<1>2. Command'
  BY YkmanAssumption DEF IInv, Types, Command, Accepted, Commands,
      FinishSerial, Return, outside, process, results
<1>3. Process'
  BY DEF IInv, Types, Process, Commands, FinishSerial, Return, outside,
      process, results
<1>4. Output'
  BY DEF IInv, Types, Output, FinishSerial, Return, outside, process,
      results
<1>5. Outcome'
  BY DEF IInv, Types, Outcome, Candidates, isHex40, Process, FinishSerial,
      Return, outside, process, results
<1> QED
  BY <1>1, <1>2, <1>3, <1>4, <1>5 DEF IInv

(* Output with no or more than one candidate.                              *)
LEMMA BadResponseStep ==
  ASSUME IInv, BadResponse
  PROVE  IInv'
<1>1. Types'
  <2>1. ret' \in Codes
    BY DEF BadResponse, Return, Codes
  <2>2. tool' \in Paths \cup {None}
    BY DEF IInv, Types, Commands, BadResponse
  <2> QED
    BY <2>1, <2>2 DEF IInv, Types, BadResponse, Return, outside, process
<1>2. Command'
  BY YkmanAssumption DEF IInv, Types, Command, Accepted, Commands,
      BadResponse, Return, outside, process, results
<1>3. Process'
  BY DEF IInv, Types, Process, Commands, BadResponse, Return,
      outside, process, results
<1>4. Output'
  BY DEF IInv, Types, Output, BadResponse, Return, outside,
      process, results
<1>5. Outcome'
  <2>1. ~ \E k \in Candidates : Candidates = {k}
    BY ResponseIs DEF IInv, Types, BadResponse, Candidates
  <2> QED
    BY <2>1 DEF IInv, Outcome, Candidates, BadResponse, Return, process
<1> QED
  BY <1>1, <1>2, <1>3, <1>4, <1>5 DEF IInv

(* Output with one candidate, which is the answer.                         *)
LEMMA GoodResponseStep ==
  ASSUME IInv, GoodResponse
  PROVE  IInv'
<1>1. Types'
  <2>1. ret' \in Codes
    BY DEF GoodResponse, Return, Codes
  <2>2. tool' \in Paths \cup {None}
    BY DEF IInv, Types, Commands, GoodResponse
  <2> QED
    BY <2>1, <2>2 DEF IInv, Types, GoodResponse, Return, outside, process
<1>2. Command'
  BY YkmanAssumption DEF IInv, Types, Command, Accepted, Commands,
      GoodResponse, Return, outside, process, results
<1>3. Process'
  BY DEF IInv, Types, Process, Commands, GoodResponse, Return, outside,
      process, results
<1>4. Output'
  BY DEF IInv, Types, Output, GoodResponse, Return, outside, process,
      results
<1>5. Outcome'
  <2>1. ASSUME ret' = "ok"
        PROVE  \A k \in Candidates : stdout[k].val = answer'
    <3> DEFINE resp == decodeResponse(extractResponseHex(stdout))
    <3>1. resp # None /\ answer' = resp
      BY <2>1 DEF GoodResponse, Return
    <3>2. stdout \in Seq(Tokens)
      BY DEF IInv, Types
    <3> HIDE DEF resp
    <3> QED
      BY <3>1, <3>2, ResponseIs DEF resp, Candidates
  <2>2. child = "ok" /\ ~killed
    BY DEF IInv, Process, GoodResponse
  <2> QED
    BY <2>1, <2>2 DEF IInv, Outcome, Candidates, GoodResponse, Return, process
<1> QED
  BY <1>1, <1>2, <1>3, <1>4, <1>5 DEF IInv

(* The user touches the key the tool waits for.                            *)
LEMMA TouchStep ==
  ASSUME IInv, Touch
  PROVE  IInv'
<1>1. Types'
  BY YkmanAssumption DEF IInv, Types, Commands, Command, Process, Touch,
      outside, process, results
<1>2. Command'
  BY YkmanAssumption DEF IInv, Types, Command, Accepted, Commands, Touch,
      outside, process, results
<1>3. Process'
  BY DEF IInv, Types, Process, Commands, Touch, outside, process, results
<1>4. Output'
  BY DEF IInv, Types, Output, Touch, outside, process, results
<1>5. Outcome'
  BY DEF IInv, Types, Outcome, Candidates, isHex40, Process, Touch, outside,
      process, results
<1> QED
  BY <1>1, <1>2, <1>3, <1>4, <1>5 DEF IInv

(* The tool prints.                                                        *)
LEMMA PrintTokenStep ==
  ASSUME IInv, PrintToken
  PROVE  IInv'
<1>1. Types'
  <2>1. PICK tok \in Printable : stdout' = Append(stdout, tok)
    BY DEF PrintToken
  <2>2. tok \in Tokens
    BY <2>1, PrintedIs
  <2>3. stdout' \in Seq(Tokens) /\ Len(stdout') = Len(stdout) + 1
    BY <2>1, <2>2, Appended DEF IInv, Types
  <2>4. Len(stdout') <= MaxOutput
    BY <2>3, YkmanAssumption, IndicesOf DEF IInv, Types, PrintToken
  <2> QED
    BY <2>3, <2>4 DEF IInv, Types, PrintToken, outside, results
<1>2. Command'
  BY YkmanAssumption DEF IInv, Types, Command, Accepted, Commands,
      PrintToken, Printable, TheResponse, Hex, Plain, outside, process,
      results
<1>3. Process'
  BY DEF IInv, Types, Process, Commands, PrintToken, Printable, TheResponse,
      Hex, Plain, outside, process, results
<1>4. Output'
  <2>1. PICK tok \in Printable : stdout' = Append(stdout, tok)
    BY DEF PrintToken
  <2>2. /\ tok \in Tokens
        /\ cmd.name = "version" /\ tok.kind = "version" =>
             tok.val = Version[cmd.exe]
    BY <2>1, PrintedIs
  <2>3. \A k \in DOMAIN stdout' :
          \/ k \in DOMAIN stdout /\ stdout'[k] = stdout[k]
          \/ stdout'[k] = tok
    BY <2>1, <2>2, Appended DEF IInv, Types
  <2>4. pc' # "start" /\ cmd' = cmd
    BY DEF IInv, Process, PrintToken
  <2> QED
    BY <2>2, <2>3, <2>4 DEF IInv, Output
<1>5. Outcome'
  BY DEF IInv, Types, Outcome, Candidates, isHex40, Process, PrintToken,
      Printable, TheResponse, Hex, Plain, outside, process, results
<1> QED
  BY <1>1, <1>2, <1>3, <1>4, <1>5 DEF IInv

(* The tool ends.                                                          *)
LEMMA ExitStep ==
  ASSUME IInv, Exit
  PROVE  IInv'
<1>1. Types'
  BY YkmanAssumption DEF IInv, Types, Commands, Command, Process, Exit,
      outside, process, results
<1>2. Command'
  BY YkmanAssumption DEF IInv, Types, Command, Accepted, Commands, Exit,
      outside, process, results
<1>3. Process'
  BY DEF IInv, Types, Process, Commands, Exit, outside, process, results
<1>4. Output'
  BY DEF IInv, Types, Output, Exit, outside, process, results
<1>5. Outcome'
  BY DEF IInv, Types, Outcome, Candidates, isHex40, Process, Exit, outside,
      process, results
<1> QED
  BY <1>1, <1>2, <1>3, <1>4, <1>5 DEF IInv

(* Nobody holds its pipes any longer.                                      *)
LEMMA PipesCloseStep ==
  ASSUME IInv, PipesClose
  PROVE  IInv'
<1>1. Types'
  BY DEF IInv, Types, PipesClose, outside, results
<1>2. Command'
  BY YkmanAssumption DEF IInv, Types, Command, Accepted, Commands,
      PipesClose, outside, process, results
<1>3. Process'
  BY DEF IInv, Types, Process, Commands, PipesClose, outside, process,
      results
<1>4. Output'
  BY DEF IInv, Types, Output, PipesClose, outside, process, results
<1>5. Outcome'
  BY DEF IInv, Types, Outcome, Candidates, isHex40, Process, PipesClose,
      outside, process, results
<1> QED
  BY <1>1, <1>2, <1>3, <1>4, <1>5 DEF IInv

(* The context ends.                                                       *)
LEMMA ContextDoneStep ==
  ASSUME IInv, ContextDone
  PROVE  IInv'
<1>1. Types'
  BY YkmanAssumption DEF IInv, Types, Commands, Command, Process,
      ContextDone, outside, process, results
<1>2. Command'
  BY YkmanAssumption DEF IInv, Types, Command, Accepted, Commands,
      ContextDone, outside, process, results
<1>3. Process'
  BY DEF IInv, Types, Process, Commands, ContextDone, outside, process,
      results
<1>4. Output'
  BY DEF IInv, Types, Output, ContextDone, outside, process, results
<1>5. Outcome'
  BY DEF IInv, Types, Outcome, Candidates, isHex40, Process, ContextDone,
      outside, process, results
<1> QED
  BY <1>1, <1>2, <1>3, <1>4, <1>5 DEF IInv

(* $PATH changes.                                                          *)
LEMMA PathChangeStep ==
  ASSUME IInv, PathChange
  PROVE  IInv'
<1>1. Types'
  BY YkmanAssumption DEF IInv, Types, Commands, Command, Process,
      PathChange, outside, process, results
<1>2. Command'
  BY YkmanAssumption DEF IInv, Types, Command, Accepted, Commands,
      PathChange, outside, process, results
<1>3. Process'
  BY DEF IInv, Types, Process, Commands, PathChange, outside, process,
      results
<1>4. Output'
  BY DEF IInv, Types, Output, PathChange, outside, process, results
<1>5. Outcome'
  BY DEF IInv, Types, Outcome, Candidates, isHex40, Process, PathChange,
      outside, process, results
<1> QED
  BY <1>1, <1>2, <1>3, <1>4, <1>5 DEF IInv

(* The working directory changes.                                          *)
LEMMA ChdirStep ==
  ASSUME IInv, Chdir
  PROVE  IInv'
<1>1. Types'
  BY YkmanAssumption DEF IInv, Types, Commands, Command, Process,
      Chdir, outside, process, results
<1>2. Command'
  BY YkmanAssumption DEF IInv, Types, Command, Accepted, Commands,
      Chdir, outside, process, results
<1>3. Process'
  BY DEF IInv, Types, Process, Commands, Chdir, outside, process,
      results
<1>4. Output'
  BY DEF IInv, Types, Output, Chdir, outside, process, results
<1>5. Outcome'
  BY DEF IInv, Types, Outcome, Candidates, isHex40, Process, Chdir,
      outside, process, results
<1> QED
  BY <1>1, <1>2, <1>3, <1>4, <1>5 DEF IInv

(* An executable disappears.                                               *)
LEMMA UninstallStep ==
  ASSUME IInv, Uninstall
  PROVE  IInv'
<1>1. Types'
  BY YkmanAssumption DEF IInv, Types, Commands, Command, Process, Uninstall,
      outside, process, results
<1>2. Command'
  BY YkmanAssumption DEF IInv, Types, Command, Accepted, Commands,
      Uninstall, outside, process, results
<1>3. Process'
  BY DEF IInv, Types, Process, Commands, Uninstall, outside, process,
      results
<1>4. Output'
  BY DEF IInv, Types, Output, Uninstall, outside, process, results
<1>5. Outcome'
  BY DEF IInv, Types, Outcome, Candidates, isHex40, Process, Uninstall,
      outside, process, results
<1> QED
  BY <1>1, <1>2, <1>3, <1>4, <1>5 DEF IInv

(* Nothing of the state changes.                                           *)
LEMMA StutterStep ==
  ASSUME IInv, UNCHANGED vars
  PROVE  IInv'
BY DEF IInv, Types, Command, Accepted, Process, Output, Outcome, Candidates,
    vars

-----------------------------------------------------------------------------
(* The inductive invariant holds *)

LEMMA InitIInv == Init => IInv
<1> SUFFICES ASSUME Init PROVE IInv
  OBVIOUS
<1>1. cmd \in Commands
  BY DEF Init, NoCommand, Commands
<1>3. stdout \in Seq(Tokens) /\ Len(stdout) <= MaxOutput
  <2>1. stdout = <<>>
    BY DEF Init
  <2> QED
    BY <2>1, YkmanAssumption
<1>4. calls \in 0..MaxCalls
  BY YkmanAssumption DEF Init
<1>2. Types
  BY <1>1, <1>3, <1>4 DEF Init, Types, StderrKinds, RunErrs, Codes
<1>5. tool \notin Binaries
  BY YkmanAssumption DEF Init
<1> QED
  BY <1>2, <1>5 DEF Init, IInv, Command, Process, Output, Outcome, NoCommand,
      Candidates

LEMMA NextIInv == IInv /\ [Next]_vars => IInv'
<1> SUFFICES ASSUME IInv, [Next]_vars PROVE IInv'
  OBVIOUS
<1>1. CASE UNCHANGED vars
  BY <1>1, StutterStep
<1>2. ASSUME NEW path \in Paths \cup {None}, NewYkmanTransport(path)
      PROVE  IInv'
  BY <1>2, NewYkmanTransportStep
<1>3. ASSUME NEW slot \in 1..3, NEW challenge \in Challenges,
             ChallengeResponse(slot, challenge)
      PROVE  IInv'
  BY <1>3, ChallengeResponseStep
<1>4. CASE Serial
  BY <1>4, SerialStep
<1>5. CASE Start
  BY <1>5, StartStep
<1>6. CASE Kill
  BY <1>6, KillStep
<1>7. CASE Reap
  BY <1>7, ReapStep
<1>8. CASE Drain
  BY <1>8, DrainStep
<1>9. CASE WaitDelay
  BY <1>9, WaitDelayStep
<1>10. CASE FinishVersion
  BY <1>10, FinishVersionStep
<1>11. CASE FinishFailed
  BY <1>11, FinishFailedStep
<1>12. CASE FinishSerial
  BY <1>12, FinishSerialStep
<1>13. CASE BadResponse
  BY <1>13, BadResponseStep
<1>14. CASE GoodResponse
  BY <1>14, GoodResponseStep
<1>15. CASE Touch
  BY <1>15, TouchStep
<1>16. CASE PrintToken
  BY <1>16, PrintTokenStep
<1>17. CASE Exit
  BY <1>17, ExitStep
<1>18. CASE PipesClose
  BY <1>18, PipesCloseStep
<1>19. CASE ContextDone
  BY <1>19, ContextDoneStep
<1>20. CASE PathChange
  BY <1>20, PathChangeStep
<1>21. CASE Uninstall
  BY <1>21, UninstallStep
<1>22. CASE Chdir
  BY <1>22, ChdirStep
<1> QED
  BY <1>1, <1>2, <1>3, <1>4, <1>5, <1>6, <1>7, <1>8, <1>9, <1>10, <1>11,
      <1>12, <1>13, <1>14, <1>15, <1>16, <1>17, <1>18, <1>19, <1>20, <1>21,
      <1>22
      DEF Next, Proceed, Rest, ProbeTimeout

LEMMA Invariance == Spec => []IInv
BY InitIInv, NextIInv, PTL DEF Spec

-----------------------------------------------------------------------------
(* Theorems *)

(* Every variable has its type: in particular a subprocess runs only while *)
(* Run waits for it, and a call that fails leaves no answer.               *)
THEOREM TypeCorrect == Spec => []TypeOK
<1>1. IInv => TypeOK
  BY DEF IInv, Types, Commands, Process, Outcome, TypeOK
<1> QED
  BY <1>1, Invariance, PTL

(* ChallengeResponse takes for the response only what a tool printed that  *)
(* ended well and was read to its end, and never another word than the     *)
(* key's response when that is there; it refuses only output with no or    *)
(* with more than one candidate.                                           *)
THEOREM AnswersAreGenuine == Spec => []AnswerIsGenuine
<1>1. IInv => AnswerIsGenuine
  <2> SUFFICES ASSUME IInv PROVE AnswerIsGenuine
    OBVIOUS
  <2>1. ret = "ErrBadResponse" => Cardinality(Candidates) # 1
    <3>1. IsFiniteSet(Candidates)
      BY FS_Interval, FS_Subset, IndicesOf DEF IInv, Types, Candidates
    <3>2. Cardinality(Candidates) = 1 => \E k : Candidates = {k}
      BY <3>1, FS_Singleton
    <3> QED
      BY <3>2 DEF IInv, Outcome
  <2> QED
    BY <2>1 DEF IInv, Outcome, AnswerIsGenuine, Candidates
<1> QED
  BY <1>1, Invariance, PTL

(* No change of $PATH after the construction changes what runs: a          *)
(* transport that was not given a relative path runs, for every call, the  *)
(* executable whose version it checked.                                    *)
THEOREM ToolStaysPinned == Spec => ToolIsPinned
<1>1. IInv /\ [Next]_vars =>
        [child' = "running" /\ child # "running" /\ cmd.name # "version"
           /\ tool # Relative =>
           /\ cmd'.exe = tool
           /\ Version[cmd'.exe] # None
           /\ ~versionLess(Version[cmd'.exe], MinVersion)]_vars
  <2> SUFFICES ASSUME IInv, Next, child' = "running", child # "running",
                      cmd.name # "version", tool # Relative
               PROVE  /\ cmd'.exe = tool
                      /\ Version[cmd'.exe] # None
                      /\ ~versionLess(Version[cmd'.exe], MinVersion)
    OBVIOUS
  <2>1. Start
    BY DEF Next, Proceed, Rest, NewYkmanTransport, ChallengeResponse, Serial,
        Begin, Kill, Reap, Drain, WaitDelay, FinishVersion, FinishFailed,
        FinishSerial, BadResponse, GoodResponse, Return, Touch, PrintToken,
        Exit, PipesClose, ContextDone, ProbeTimeout, PathChange, Chdir,
        Uninstall, process, vars
  <2>2. cmd.bin = tool /\ tool \in Binaries
    BY <2>1, YkmanAssumption DEF IInv, Types, Commands, Command, Start, Paths
  <2>3. cmd'.exe = tool
    BY <2>1, <2>2 DEF IInv, Types, Commands, Start, Executable
  <2> QED
    BY <2>2, <2>3 DEF IInv, Command, Accepted
<1> QED
  BY <1>1, Invariance, PTL DEF Spec, ToolIsPinned
=============================================================================
