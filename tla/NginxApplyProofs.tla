--------------------------- MODULE NginxApplyProofs ---------------------------
(***************************************************************************)
(* For any projects, ports and requests: changes of an Nginx file that come *)
(* one after the other implement NginxConf, and the file that nginx runs   *)
(* is the one that its callers see.                                        *)
(***************************************************************************)
EXTENDS NginxApply, TLAPS

Written == {"test", "reload"}
Pending == \E r \in Requests : at[r] \in Written

-----------------------------------------------------------------------------
(* The inductive invariant.                                                *)

Alone ==
  \A r, q \in Requests : at[r] \in Working /\ at[q] \in Working => r = q

\* A rollback finds a copy of the file that the change was made of.
CopyIsOfBefore ==
  \A r \in Requests :
    at[r] \in Written => conf = Change(r, bak) /\ (r \in existed <=> bak # Missing)

TestedIsValid == \A r \in Requests : at[r] = "reload" => Valid(conf)

AnswersCome == \A r \in Requests : outcome[r] = "none" <=> at[r] # "done"

\* The visible file, without the choice of the request that is at work.
Before == IF Pending THEN bak ELSE conf

LoadedIsVisible ==
  late = {} /\ (\A r \in Requests : outcome[r] # "cut") => live = Before

IInv ==
  /\ TypeOK
  /\ Alone /\ CopyIsOfBefore /\ TestedIsValid /\ AnswersCome /\ LoadedIsVisible

-----------------------------------------------------------------------------
\* What a change makes of a file, or of none, is a text.
LEMMA ChangeIsText ==
  ASSUME NEW r \in Requests, NEW content \in Content
  PROVE  Change(r, content) \in Text /\ Change(r, content) \in Content
<1>1. Blank \in Text
  BY TextConstants DEF Blank, Text
<1>2. (IF content = Missing THEN Blank ELSE content) \in Text
  BY <1>1 DEF Content
<1> QED
  BY <1>2, TextConstants DEF Change, Text, Content

\* The choice in Visible has one candidate, and its copy is the one in conf_bak.
LEMMA VisibleIsBefore ==
  ASSUME Alone, CopyIsOfBefore
  PROVE  Visible = Before
<1>1. CASE Pending
  <2> DEFINE q == CHOOSE x \in Requests : at[x] \in {"test", "reload"}
  <2>1. q \in Requests /\ at[q] \in {"test", "reload"}
    BY <1>1 DEF Pending, Written
  <2>2. Visible = IF q \in existed THEN bak ELSE Missing
    BY <1>1 DEF Pending, Written, Visible
  <2>3. q \in existed <=> bak # Missing
    BY <2>1 DEF CopyIsOfBefore, Written
  <2> QED
    BY <1>1, <2>2, <2>3 DEF Before
<1>2. CASE ~Pending
  BY <1>2 DEF Pending, Written, Visible, Before
<1> QED
  BY <1>1, <1>2

\* The same about the next state.
LEMMA VisibleIsBeforePrimed ==
  ASSUME Alone', CopyIsOfBefore'
  PROVE  Visible' = Before'
<1>1. CASE Pending'
  <2> DEFINE q == CHOOSE x \in Requests : at'[x] \in {"test", "reload"}
  <2>1. q \in Requests /\ at'[q] \in {"test", "reload"}
    BY <1>1 DEF Pending, Written
  <2>2. Visible' = IF q \in existed' THEN bak' ELSE Missing
    BY <1>1 DEF Pending, Written, Visible
  <2>3. q \in existed' <=> bak' # Missing
    BY <2>1 DEF CopyIsOfBefore, Written
  <2> QED
    BY <1>1, <2>2, <2>3 DEF Before
<1>2. CASE ~Pending'
  BY <1>2 DEF Pending, Written, Visible, Before
<1> QED
  BY <1>1, <1>2

-----------------------------------------------------------------------------
(* The invariant holds at first and is kept.                               *)

LEMMA InitInv == Init => IInv
<1> SUFFICES ASSUME Init PROVE IInv
  OBVIOUS
<1>1. Blank \in Text
  BY TextConstants DEF Blank, Text
<1>2. TypeOK
  BY <1>1 DEF Init, TypeOK, Content, Working
<1>3. \A r \in Requests : at[r] = "idle" /\ outcome[r] = "none"
  BY DEF Init
<1>4. Alone /\ CopyIsOfBefore /\ TestedIsValid /\ AnswersCome
  BY <1>3 DEF Alone, CopyIsOfBefore, TestedIsValid, AnswersCome,
              Working, Written
<1>5. LoadedIsVisible
  BY <1>3 DEF LoadedIsVisible, Before, Pending, Written, Init
<1> QED
  BY <1>2, <1>4, <1>5 DEF IInv

\* What Ends says of the next state.
LEMMA EndsShape ==
  ASSUME TypeOK, NEW r \in Requests, NEW verdict \in {"ok", "failed"}, Ends(r, verdict)
  PROVE  /\ at' \in [Requests -> Working \cup {"idle", "done"}]
         /\ outcome' \in [Requests -> {"none", "ok", "failed", "cut"}]
         /\ at'[r] = "done" /\ outcome'[r] \in {"ok", "failed", "cut"}
         /\ \A q \in Requests \ {r} : at'[q] = at[q] /\ outcome'[q] = outcome[q]
BY DEF Ends, TypeOK

\* A request at work is the only one; one that comes finds none.
LEMMA OthersRest ==
  ASSUME Serial, Alone, NEW r \in Requests, Comes(r) \/ at[r] \in Working
  PROVE  \A q \in Requests \ {r} : at[q] \notin Working
BY DEF Alone, Comes, Quiet

\* A request that ends leaves a file of which nothing is pending.
LEMMA EndKeeps ==
  ASSUME Serial, IInv, NEW r \in Requests, NEW verdict \in {"ok", "failed"},
         Comes(r) \/ at[r] \in Working, Ends(r, verdict),
         conf' \in Content, bak' \in Content, live' \in Content,
         late' \subseteq Requests,
         late' = {} /\ outcome'[r] # "cut" => late = {} /\ (live = Before => live' = conf'),
         UNCHANGED <<local, existed>>
  PROVE  IInv'
<1> USE DEF IInv
<1>1. /\ at' \in [Requests -> Working \cup {"idle", "done"}]
      /\ outcome' \in [Requests -> {"none", "ok", "failed", "cut"}]
      /\ at'[r] = "done" /\ outcome'[r] \in {"ok", "failed", "cut"}
      /\ \A q \in Requests \ {r} : at'[q] = at[q] /\ outcome'[q] = outcome[q]
  BY EndsShape
<1>2. \A q \in Requests : at'[q] \notin Working
  BY <1>1, OthersRest DEF Working
<1>3. TypeOK'
  BY <1>1 DEF TypeOK
<1>4. Alone' /\ CopyIsOfBefore' /\ TestedIsValid'
  BY <1>2 DEF Alone, CopyIsOfBefore, TestedIsValid, Working, Written
<1>5. AnswersCome'
  BY <1>1 DEF AnswersCome
<1>6. Before' = conf'
  BY <1>2 DEF Before, Pending, Working, Written
<1>7. LoadedIsVisible'
  <2> SUFFICES ASSUME late' = {}, \A q \in Requests : outcome'[q] # "cut"
               PROVE  live' = Before'
    BY DEF LoadedIsVisible
  <2>1. outcome[r] # "cut"
    BY DEF AnswersCome, Comes, Working
  <2>2. \A q \in Requests : outcome[q] # "cut"
    BY <1>1, <2>1
  <2>3. live = Before
    BY <2>2 DEF LoadedIsVisible
  <2> QED
    BY <1>6, <2>3
<1> QED
  BY <1>3, <1>4, <1>5, <1>7

\* What Rollback makes of the files: with the copy of before, that is put back.
LEMMA RollbackRestores ==
  ASSUME IInv, NEW r \in Requests, at[r] \in Written, Rollback(r)
  PROVE  conf' = Before /\ conf' \in Content /\ bak' \in Content
<1>1. Pending /\ (r \in existed <=> bak # Missing) /\ bak \in Content /\ Missing \in Content
  BY DEF IInv, CopyIsOfBefore, TypeOK, Content, Pending
<1> QED
  BY <1>1 DEF Rollback, Before

\* A change that ends before anything is written leaves the file alone.
LEMMA UnwrittenKeeps ==
  ASSUME Serial, IInv, NEW r \in Requests, Refuse(r) \/ CannotWrite(r) \/ ScriptFails(r)
  PROVE  IInv' /\ conf' = conf /\ conf = Before /\ Ends(r, "failed")
<1>1. Before = conf
  BY OthersRest DEF IInv, Refuse, CannotWrite, ScriptFails, Comes, Before, Pending, Working, Written
<1>2. /\ conf' = conf /\ live' = live /\ late' = late /\ UNCHANGED <<local, existed>>
      /\ Ends(r, "failed") /\ (Comes(r) \/ at[r] \in Working)
  BY DEF Refuse, CannotWrite, ScriptFails, file, Working
<1>3. conf' \in Content /\ bak' \in Content /\ live' \in Content /\ late' \subseteq Requests
  BY <1>2 DEF IInv, TypeOK, Refuse, CannotWrite, ScriptFails, Content, file
<1> QED
  BY <1>1, <1>2, <1>3, EndKeeps

\* The steps of one request that moves on, and of which the others see nothing.
LEMMA GoToShape ==
  ASSUME TypeOK, NEW r \in Requests, NEW label \in Working, GoTo(r, label)
  PROVE  /\ at' \in [Requests -> Working \cup {"idle", "done"}]
         /\ at'[r] = label
         /\ \A q \in Requests \ {r} : at'[q] = at[q]
BY DEF GoTo, TypeOK

LEMMA ApplyLocalKeeps ==
  ASSUME Serial, IInv, NEW r \in Requests, ApplyLocal(r)
  PROVE  IInv' /\ Before' = Before
<1> USE DEF IInv
<1>1. /\ at' \in [Requests -> Working \cup {"idle", "done"}]
      /\ at'[r] = "test"
      /\ \A q \in Requests \ {r} : at'[q] = at[q]
  BY GoToShape DEF ApplyLocal, Working
<1>2. \A q \in Requests \ {r} : at'[q] \notin Working
  BY <1>1, OthersRest DEF ApplyLocal
<1>3. conf' = Change(r, conf) /\ bak' = conf /\ (r \in existed' <=> conf # Missing)
  BY DEF ApplyLocal, Found
<1>4. TypeOK'
  BY <1>1, <1>3, ChangeIsText DEF TypeOK, ApplyLocal, Found
<1>5. Alone' /\ CopyIsOfBefore' /\ TestedIsValid'
  BY <1>1, <1>2, <1>3 DEF Alone, CopyIsOfBefore, TestedIsValid,
                          Working, Written
<1>6. AnswersCome'
  BY <1>1 DEF AnswersCome, ApplyLocal, Comes
<1>7. Before' = bak' /\ Before = conf
  BY <1>1, OthersRest DEF Before, Pending, ApplyLocal, Comes, Working, Written
<1>8. LoadedIsVisible'
  BY <1>3, <1>7 DEF LoadedIsVisible, ApplyLocal
<1> QED
  BY <1>3, <1>4, <1>5, <1>6, <1>7, <1>8

LEMMA ReadRemoteKeeps ==
  ASSUME Serial, IInv, NEW r \in Requests, ReadRemote(r)
  PROVE  IInv' /\ Before' = Before
<1> USE DEF IInv
<1>1. /\ at' \in [Requests -> Working \cup {"idle", "done"}]
      /\ at'[r] = "sent"
      /\ \A q \in Requests \ {r} : at'[q] = at[q]
  BY GoToShape DEF ReadRemote, Working
<1>2. \A q \in Requests \ {r} : at'[q] \notin Working
  BY <1>1, OthersRest DEF ReadRemote
<1>3. UNCHANGED <<local, conf, bak, live, late, existed, outcome>>
  BY DEF ReadRemote, file
<1>4. TypeOK'
  BY <1>1, <1>3 DEF TypeOK, ReadRemote, file
<1>5. Alone' /\ CopyIsOfBefore' /\ TestedIsValid'
  BY <1>1, <1>2, <1>3 DEF Alone, CopyIsOfBefore, TestedIsValid,
                          Working, Written, ReadRemote, file
<1>6. AnswersCome'
  BY <1>1 DEF AnswersCome, ReadRemote, Comes
<1>7. Before' = conf /\ Before = conf
  BY <1>1, <1>2, OthersRest
     DEF Before, Pending, ReadRemote, Comes, Working, Written, file
<1>8. LoadedIsVisible'
  BY <1>7 DEF LoadedIsVisible, ReadRemote, file
<1> QED
  BY <1>4, <1>5, <1>6, <1>7, <1>8

\* A test that passes only moves on; one that fails restores the file.
LEMMA TestKeeps ==
  ASSUME Serial, IInv, NEW r \in Requests, Test(r)
  PROVE  /\ IInv'
         /\ \/ UNCHANGED outcome /\ Before' = Before
            \/ Ends(r, "failed") /\ conf' = Before
<1>1. CASE Rollback(r) /\ Ends(r, "failed")
  <2>1. conf' = Before /\ conf' \in Content /\ bak' \in Content
    BY <1>1, RollbackRestores DEF Test, Written
  <2>2. live' = live /\ late' = late /\ live' \in Content /\ late' \subseteq Requests
    BY DEF Test, IInv, TypeOK
  <2> QED
    BY <1>1, <2>1, <2>2, EndKeeps DEF Test, Working, IInv
<1>2. CASE Valid(conf) /\ GoTo(r, "reload") /\ UNCHANGED <<conf, bak, outcome>>
  <2> USE DEF IInv
  <2>1. /\ at' \in [Requests -> Working \cup {"idle", "done"}]
        /\ at'[r] = "reload"
        /\ \A q \in Requests \ {r} : at'[q] = at[q]
    BY <1>2, GoToShape DEF Working
  <2>2. \A q \in Requests \ {r} : at'[q] \notin Working
    BY <2>1, OthersRest DEF Test, Working
  <2>3. UNCHANGED <<local, conf, bak, live, late, existed, outcome>>
    BY <1>2 DEF Test
  <2>4. TypeOK'
    BY <2>1, <2>3 DEF TypeOK
  <2>5. conf = Change(r, bak) /\ (r \in existed <=> bak # Missing)
    BY DEF Test, CopyIsOfBefore, Written
  <2>6. Alone' /\ CopyIsOfBefore'
    BY <2>1, <2>2, <2>3, <2>5 DEF Alone, CopyIsOfBefore,
                                  Working, Written
  <2>7. TestedIsValid'
    BY <1>2, <2>1, <2>2, <2>3 DEF TestedIsValid, Working, Valid
  <2>8. AnswersCome'
    BY <2>1, <2>3 DEF AnswersCome, Test
  <2>9. Before' = bak /\ Before = bak
    BY <2>1, <2>3 DEF Before, Pending, Test, Written
  <2>10. LoadedIsVisible'
    BY <2>3, <2>9 DEF LoadedIsVisible
  <2> QED
    BY <2>3, <2>4, <2>6, <2>7, <2>8, <2>9, <2>10
<1> QED
  BY <1>1, <1>2 DEF Test

\* A reload that works makes the change; one that fails restores the file.
LEMMA ReloadKeeps ==
  ASSUME Serial, IInv, NEW r \in Requests, Reload(r)
  PROVE  /\ IInv'
         /\ \/ /\ Ends(r, "ok") /\ conf' = conf
               /\ conf = Change(r, Before) /\ Valid(conf)
            \/ Ends(r, "failed") /\ conf' = Before
<1>1. CASE Valid(conf) /\ live' = conf /\ Ends(r, "ok") /\ UNCHANGED <<conf, bak, late>>
  <2>1. Before = bak /\ conf = Change(r, bak)
    BY DEF IInv, CopyIsOfBefore, Before, Pending, Reload, Written
  <2>2. conf' \in Content /\ bak' \in Content /\ live' \in Content /\ late' \subseteq Requests
    BY <1>1 DEF IInv, TypeOK
  <2> QED
    BY <1>1, <2>1, <2>2, EndKeeps DEF Reload, Working
<1>2. CASE /\ \/ UNCHANGED <<live, late>>
              \/ Valid(conf) /\ live' = conf /\ late' = late \cup {r}
           /\ Rollback(r) /\ Ends(r, "failed")
  <2>1. conf' = Before /\ conf' \in Content /\ bak' \in Content
    BY <1>2, RollbackRestores DEF Reload, Written
  <2>2. live' \in Content /\ late' \subseteq Requests
    BY <1>2 DEF IInv, TypeOK
  <2>3. late' = {} => late = {} /\ live' = live
    BY <1>2
  <2> QED
    BY <1>2, <2>1, <2>2, <2>3, EndKeeps DEF Reload, Working
<1> QED
  BY <1>1, <1>2 DEF Reload

\* A crash ends the one request that is at work.
LEMMA CrashKeeps ==
  ASSUME IInv, Crash
  PROVE  /\ IInv'
         /\ \E r \in Requests :
              /\ outcome[r] = "none" /\ outcome' = [outcome EXCEPT ![r] = "cut"]
              /\ Before' \in {Before, Change(r, Before)}
<1> DEFINE cut == {r \in Requests : at[r] \in Working}
<1>1. /\ at' = [r \in Requests |-> IF r \in cut THEN "done" ELSE at[r]]
      /\ outcome' = [r \in Requests |-> IF r \in cut THEN "cut" ELSE outcome[r]]
      /\ UNCHANGED <<file, existed>>
  BY DEF Crash
<1>2. PICK w \in Requests : at[w] \in Working
  BY DEF Crash, Quiet
<1>3. \A q \in Requests : at[q] \in Working => q = w
  BY <1>2 DEF IInv, Alone
<1>4. TypeOK'
  BY <1>1 DEF IInv, TypeOK, file
<1>5. \A q \in Requests : at'[q] \notin Working
  BY <1>1 DEF Working
<1>6. Alone' /\ CopyIsOfBefore' /\ TestedIsValid'
  BY <1>5 DEF Alone, CopyIsOfBefore, TestedIsValid, Working, Written
<1>7. AnswersCome'
  BY <1>1 DEF IInv, AnswersCome, Working
<1>8. cut = {w} /\ outcome[w] = "none"
  BY <1>2, <1>3 DEF IInv, AnswersCome, Working
<1>9. outcome' = [outcome EXCEPT ![w] = "cut"]
  BY <1>1, <1>8 DEF IInv, TypeOK
<1>10. Before' = conf
  BY <1>1, <1>5 DEF Before, Pending, Written, Working, file
<1>11. conf \in {Before, Change(w, Before)}
  <2>1. Pending => at[w] \in Written
    BY <1>3 DEF Pending, Written, Working
  <2> QED
    BY <2>1 DEF IInv, CopyIsOfBefore, Before
<1>12. LoadedIsVisible'
  BY <1>2, <1>9 DEF LoadedIsVisible, IInv, TypeOK
<1> QED
  BY <1>4, <1>6, <1>7, <1>8, <1>9, <1>10, <1>11, <1>12 DEF IInv

LEMMA NextKeeps ==
  ASSUME Serial, IInv, [Next]_vars
  PROVE  IInv'
<1>1. ASSUME NEW r \in Requests,
             \/ Refuse(r) \/ CannotWrite(r) \/ ApplyLocal(r) \/ ReadRemote(r)
             \/ ScriptFails(r) \/ Test(r) \/ Reload(r)
      PROVE  IInv'
  BY <1>1, UnwrittenKeeps, ApplyLocalKeeps, ReadRemoteKeeps, TestKeeps, ReloadKeeps
<1>2. CASE Crash
  BY <1>2, CrashKeeps
<1>3. CASE UNCHANGED vars
  <2>1. UNCHANGED <<local, conf, bak, live, late, at, existed, outcome>>
    BY <1>3 DEF vars, file
  <2>2. Before' = Before
    BY <2>1 DEF Before, Pending
  <2>3. TypeOK' /\ Alone' /\ CopyIsOfBefore'
    BY <2>1 DEF IInv, TypeOK, Alone, CopyIsOfBefore
  <2>4. TestedIsValid' /\ AnswersCome' /\ LoadedIsVisible'
    BY <2>1, <2>2 DEF IInv, TestedIsValid, AnswersCome, LoadedIsVisible, Valid
  <2> QED
    BY <2>3, <2>4 DEF IInv
<1> QED
  BY <1>1, <1>2, <1>3 DEF Next

-----------------------------------------------------------------------------
(* Every step is a step of NginxConf, or changes nothing it speaks of.     *)

LEMMA SameChange ==
  ASSUME NEW r \in Requests, NEW content
  PROVE  /\ Atomic!Change(r, content) = Change(r, content)
         /\ Atomic!Valid(content) = Valid(content)
BY DEF Atomic!Change, Change, Atomic!Valid, Valid, Atomic!Blank, Blank

\* An answer that leaves the visible file alone, or makes the change in it.
LEMMA EndIsAnswer ==
  ASSUME IInv, NEW r \in Requests, NEW verdict \in {"ok", "failed"},
         Ends(r, verdict), outcome[r] = "none",
         \/ verdict = "failed" /\ Visible' = Visible
         \/ verdict = "ok" /\ Visible' = Change(r, Visible) /\ Valid(Visible')
  PROVE  Atomic!Next
<1>1. CASE verdict = "failed" /\ Visible' = Visible
  <2>1. Atomic!Fail(r)
    BY <1>1 DEF Atomic!Fail, Atomic!Answer, Ends
  <2> QED
    BY <2>1 DEF Atomic!Next
<1>2. CASE verdict = "ok" /\ Visible' = Change(r, Visible) /\ Valid(Visible')
  <2>1. Atomic!Valid(Visible')
    BY <1>2, SameChange
  <2>2. Atomic!Make(r)
    BY <1>2, <2>1, SameChange DEF Atomic!Make, Atomic!Answer, Ends
  <2> QED
    BY <2>2 DEF Atomic!Next
<1> QED
  BY <1>1, <1>2

LEMMA InitRefines == Init => Atomic!Init
<1> SUFFICES ASSUME Init PROVE Atomic!Init
  OBVIOUS
<1>1. Visible = conf
  BY DEF Init, Visible
<1>2. conf \in Atomic!Content
  BY DEF Init, Content, Atomic!Content, Text, Atomic!Text
<1> QED
  BY <1>1, <1>2 DEF Init, Atomic!Init

LEMMA StepRefines ==
  ASSUME Serial, IInv, [Next]_vars
  PROVE  [Atomic!Next]_<<Visible, outcome>>
<1>1. IInv'
  BY NextKeeps
<1>2. Visible = Before /\ Visible' = Before'
  BY <1>1, VisibleIsBefore, VisibleIsBeforePrimed DEF IInv
<1>3. ASSUME NEW r \in Requests, NEW verdict \in {"ok", "failed"}, Ends(r, verdict),
             Comes(r) \/ at[r] \in Working
      PROVE  outcome[r] = "none" /\ Before' = conf'
  <2>1. \A q \in Requests : at'[q] \notin Working
    BY <1>3, EndsShape, OthersRest DEF IInv, Working
  <2> QED
    BY <1>3, <2>1 DEF IInv, AnswersCome, Comes, Working, Before, Pending, Written
<1>4. ASSUME NEW r \in Requests, Refuse(r) \/ CannotWrite(r) \/ ScriptFails(r)
      PROVE  Atomic!Next
  <2>1. conf' = conf /\ conf = Before /\ Ends(r, "failed")
    BY <1>4, UnwrittenKeeps
  <2>2. Comes(r) \/ at[r] \in Working
    BY <1>4 DEF Refuse, CannotWrite, ScriptFails, Working
  <2>3. outcome[r] = "none" /\ Before' = conf'
    BY <1>3, <2>1, <2>2
  <2> QED
    BY <1>2, <2>1, <2>3, EndIsAnswer
<1>5. ASSUME NEW r \in Requests, ApplyLocal(r) \/ ReadRemote(r)
      PROVE  Before' = Before /\ outcome' = outcome
  <2>1. Before' = Before
    BY <1>5, ApplyLocalKeeps, ReadRemoteKeeps
  <2> QED
    BY <1>5, <2>1 DEF ApplyLocal, ReadRemote
<1>6. ASSUME NEW r \in Requests, Test(r)
      PROVE  Atomic!Next \/ (Before' = Before /\ outcome' = outcome)
  <2>1. \/ UNCHANGED outcome /\ Before' = Before
        \/ Ends(r, "failed") /\ conf' = Before
    BY <1>6, TestKeeps
  <2>2. CASE Ends(r, "failed") /\ conf' = Before
    <3>1. outcome[r] = "none" /\ Before' = conf'
      BY <1>3, <1>6, <2>2 DEF Test, Working
    <3> QED
      BY <1>2, <2>2, <3>1, EndIsAnswer
  <2> QED
    BY <2>1, <2>2
<1>7. ASSUME NEW r \in Requests, Reload(r)
      PROVE  Atomic!Next
  <2>1. \/ Ends(r, "ok") /\ conf' = conf /\ conf = Change(r, Before) /\ Valid(conf)
        \/ Ends(r, "failed") /\ conf' = Before
    BY <1>7, ReloadKeeps
  <2>2. CASE Ends(r, "failed") /\ conf' = Before
    <3>1. outcome[r] = "none" /\ Before' = conf'
      BY <1>3, <1>7, <2>2 DEF Reload, Working
    <3> QED
      BY <1>2, <2>2, <3>1, EndIsAnswer
  <2>3. CASE Ends(r, "ok") /\ conf' = conf /\ conf = Change(r, Before) /\ Valid(conf)
    <3>1. outcome[r] = "none" /\ Before' = conf'
      BY <1>3, <1>7, <2>3 DEF Reload, Working
    <3>2. Visible' = conf /\ Visible' = Change(r, Visible)
      BY <1>2, <2>3, <3>1
    <3>3. Valid(Visible')
      BY <2>3, <3>2 DEF Valid
    <3> QED
      BY <2>3, <3>1, <3>2, <3>3, EndIsAnswer
  <2> QED
    BY <2>1, <2>2, <2>3
<1>8. CASE Crash
  <2>1. \E r \in Requests :
          /\ outcome[r] = "none" /\ outcome' = [outcome EXCEPT ![r] = "cut"]
          /\ Before' \in {Before, Change(r, Before)}
    BY <1>8, CrashKeeps
  <2>2. ASSUME NEW r \in Requests, outcome[r] = "none",
               outcome' = [outcome EXCEPT ![r] = "cut"],
               Before' \in {Before, Change(r, Before)}
        PROVE  Atomic!Next
    <3>1. Atomic!CutShort(r)
      BY <1>2, <2>2, SameChange DEF Atomic!CutShort, Atomic!Answer
    <3> QED
      BY <3>1 DEF Atomic!Next
  <2> QED
    BY <1>2, <2>1, <2>2
<1>9. CASE UNCHANGED vars
  BY <1>9 DEF vars, file, Visible
<1> QED
  BY <1>2, <1>4, <1>5, <1>6, <1>7, <1>8, <1>9 DEF Next

-----------------------------------------------------------------------------
(* The theorems, for requests that come one after the other.               *)

\* The state of _apply_nginx_conf_change_on_server and of its files is always one
\* of those described by the inductive invariant.
THEOREM Invariance == ASSUME Serial PROVE Spec => []IInv
<1>1. IInv /\ [Next]_vars => IInv'
  BY NextKeeps
<1> QED
  BY InitInv, <1>1, PTL DEF Spec

\* Positions, texts and answers are what they should be.
THEOREM TypeCorrect == ASSUME Serial PROVE Spec => []TypeOK
<1>1. IInv => TypeOK
  BY DEF IInv
<1> QED
  BY Invariance, <1>1, PTL

\* The copy, nginx -t and the two rollbacks of _apply_nginx_conf_change make a
\* change of the file atomic; on another server nothing is changed.
THEOREM Implementation == ASSUME Serial PROVE Spec => ChangesAreAtomic
<1>1. IInv /\ [Next]_vars => [Atomic!Next]_<<Visible, outcome>>
  BY StepRefines
<1> QED
  BY Invariance, InitRefines, <1>1, PTL DEF Spec, ChangesAreAtomic, Atomic!Spec

\* Of changes that come one after the other: with no crash and no reload taken for
\* failed, nginx runs what the file says whenever none is at work.
THEOREM LoadedIsWritten == ASSUME Serial PROVE Spec => []NginxRunsTheFile
<1>1. IInv => NginxRunsTheFile
  BY DEF IInv, LoadedIsVisible, NginxRunsTheFile, Before, Pending, Quiet, Working, Written
<1> QED
  BY Invariance, <1>1, PTL
=============================================================================
