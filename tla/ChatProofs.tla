------------------------------ MODULE ChatProofs ------------------------------
(***************************************************************************)
(* Theorems about Chat, for any messages, any number of them, and whatever *)
(* functions of the server were found.                                     *)
(***************************************************************************)
EXTENDS Chat, SequenceTheorems, TLAPS

\* The stack of calls and what is known of every message.
Calls ==
    /\ messages \in Seq(Kinds)
    /\ Len(messages) <= MaxMessages
    /\ stack \in Seq(0..Len(messages))
    /\ fate \in [1..Len(messages) -> {"open", "delivered", "withheld"}]
    /\ asked \subseteq 1..Len(messages)

\* The variables of the plugin.
Plugin ==
    /\ found \subseteq Signatures
    /\ {scriptRun, supressMsg, processNPC, ignoreSilent, pChatThis, up} \subseteq BOOLEAN
    /\ lastMsg \in 0..Len(messages)

\* While a chat script runs, lastMsg and supressMsg are about its own message:
\* messages that the script sends pass through the hook without touching them.
Current ==
    scriptRun => /\ lastMsg = InScript
                 /\ fate[lastMsg] = "open"
                 /\ supressMsg <=> lastMsg \in asked

IInv == Calls /\ Plugin /\ answer \in Answer /\ FlagMirrorsStack /\ Current /\ OwnVerdict /\ OwnText

USE ChatAssumption

-----------------------------------------------------------------------------
(* The stack.                                                              *)

\* A script is called.
LEMMA Pushed ==
    ASSUME NEW n \in Nat, NEW s \in Seq(0..n), NEW e \in 0..(n + 1)
    PROVE  /\ Append(s, e) \in Seq(0..(n + 1))
           /\ Append(s, e) # <<>>
           /\ Len(Append(s, e)) = Len(s) + 1
           /\ Append(s, e)[Len(s) + 1] = e
           /\ \A i \in 1..Len(s) : Append(s, e)[i] = s[i]
<1>1. s \in Seq(0..(n + 1))
  BY SeqMonotonic
<1> QED BY <1>1, AppendProperties

\* A call returns.
LEMMA Popped ==
    ASSUME NEW S, NEW s \in Seq(S), s # <<>>
    PROVE  /\ SubSeq(s, 1, Len(s) - 1) \in Seq(S)
           /\ Len(SubSeq(s, 1, Len(s) - 1)) = Len(s) - 1
           /\ \A i \in 1..(Len(s) - 1) : SubSeq(s, 1, Len(s) - 1)[i] = s[i]
<1>1. Len(s) \in Nat \ {0}
  BY EmptySeq
<1>2. \A i \in 1..(Len(s) - 1) : s[i] \in S
  BY <1>1, ElementOfSeq
<1> DEFINE n == Len(s) - 1  t == SubSeq(s, 1, n)
<1> HIDE DEF n
<1>3. n \in Nat /\ n = Len(s) - 1
  BY <1>1 DEF n
<1>4. \A i \in 1..n : s[i] \in S
  BY <1>2, <1>3
<1>5. /\ t \in Seq(S)
      /\ Len(t) = IF 1 <= n THEN n - 1 + 1 ELSE 0
      /\ \A i \in 1..(n - 1 + 1) : t[i] = s[1 + i - 1]
  BY <1>3, <1>4, SubSeqProperties
<1>6. n - 1 + 1 = n /\ \A i \in 1..n : 1 + i - 1 = i
  BY <1>3
<1>7. Len(t) = n /\ \A i \in 1..n : t[i] = s[i]
  BY <1>3, <1>5, <1>6
<1> QED BY <1>5, <1>7 DEF n

\* Only the empty stack has no top.
LEMMA Top ==
    ASSUME Calls, stack # <<>>
    PROVE  Len(stack) \in Nat \ {0} /\ InScript \in 0..Len(messages)
<1>1. Len(stack) \in Nat \ {0}
  BY EmptySeq DEF Calls
<1> QED BY <1>1, ElementOfSeq DEF Calls, InScript

\* What holds of the stack when a call returns: below the top there are only
\* scripts that run for no message.
LEMMA ReturnStep ==
    ASSUME Calls, FlagMirrorsStack, stack # <<>>,
           stack' = SubSeq(stack, 1, Len(stack) - 1), ~scriptRun'
    PROVE  FlagMirrorsStack' /\ stack' \in Seq(0..Len(messages))
<1> DEFINE n == Len(stack)
<1>1. n \in Nat \ {0}
  BY Top
<1>2. /\ stack' \in Seq(0..Len(messages))
      /\ Len(stack') = n - 1
      /\ \A i \in 1..(n - 1) : stack'[i] = stack[i]
  BY Popped DEF Calls
<1>3. \A i \in 1..(n - 1) : stack[i] = 0
  BY <1>1 DEF FlagMirrorsStack
<1>4. \A i \in 1..Len(stack') : stack'[i] = 0
  BY <1>2, <1>3
<1>5. stack' # <<>> => Len(stack') \in 1..Len(stack')
  BY <1>2, EmptySeq
<1> QED BY <1>2, <1>4, <1>5 DEF FlagMirrorsStack, InScript

-----------------------------------------------------------------------------
(* A message in the hook.                                                  *)

\* One more message.
LEMMA Added ==
    ASSUME Calls, NEW m \in Kinds, Len(messages) < MaxMessages,
           NEW f \in {"open", "delivered", "withheld"}
    PROVE  /\ Append(messages, m) \in Seq(Kinds)
           /\ Len(Append(messages, m)) = Len(messages) + 1
           /\ Len(Append(messages, m)) <= MaxMessages
           /\ Len(messages) \in Nat
           /\ Append(fate, f) \in [1..(Len(messages) + 1) -> {"open", "delivered", "withheld"}]
           /\ Append(fate, f)[Len(messages) + 1] = f
           /\ \A n \in 1..Len(messages) : Append(fate, f)[n] = fate[n]
<1> DEFINE n == Len(messages)  F == {"open", "delivered", "withheld"}
<1>1. n \in Nat /\ messages \in Seq(Kinds) /\ n <= MaxMessages
  BY LenProperties DEF Calls
<1>2. /\ Append(messages, m) \in Seq(Kinds)
      /\ Len(Append(messages, m)) = n + 1
  BY <1>1, AppendProperties
<1>3. fate \in Seq(F) /\ Len(fate) = n
  BY <1>1 DEF Calls
<1>4. /\ Append(fate, f) \in Seq(F)
      /\ Len(Append(fate, f)) = n + 1
      /\ Append(fate, f)[n + 1] = f
      /\ \A i \in 1..n : Append(fate, f)[i] = fate[i]
  BY <1>3, AppendProperties
<1>5. Append(fate, f) \in [1..(n + 1) -> F]
  BY <1>4, LenProperties
<1> QED BY <1>1, <1>2, <1>4, <1>5

\* The message goes on, at once or after its script: it is the current one, or
\* the script of another one goes on undisturbed.
LEMMA HookStep ==
    ASSUME Calls, Plugin, FlagMirrorsStack, Current, OwnVerdict,
           NEW m \in Kinds, Len(messages) < MaxMessages, up, Hook(m)
    PROVE  (Calls /\ Plugin /\ FlagMirrorsStack /\ Current /\ OwnVerdict)'
<1> DEFINE n == Len(messages) + 1
           runs == Filters /\ RunsScript(m)
           f == IF runs THEN "open" ELSE "delivered"
<1>1. /\ messages' = Append(messages, m) /\ fate' = Append(fate, f)
      /\ pChatThis' = (pChatThis \/ "chat" \in found)
      /\ UNCHANGED <<found, processNPC, ignoreSilent, asked>>
  BY DEF Hook
<1>2. /\ messages' \in Seq(Kinds) /\ Len(messages') = n /\ n <= MaxMessages
      /\ n \in Nat \ {0} /\ Len(messages) = n - 1
      /\ fate' \in [1..n -> {"open", "delivered", "withheld"}]
      /\ fate'[n] = f
      /\ \A i \in 1..(n - 1) : fate'[i] = fate[i]
  BY <1>1, Added
<1>3. asked' \subseteq 1..(n - 1) /\ asked' \subseteq 1..n /\ n \notin asked
  BY <1>1, <1>2 DEF Calls
<1>4. OwnVerdict'
  BY <1>1, <1>2, <1>3 DEF OwnVerdict
<1>5. CASE runs /\ "run" \in found
  <2>1. /\ stack' = Append(stack, n) /\ scriptRun' /\ scriptRun' \in BOOLEAN /\ UNCHANGED up
        /\ lastMsg' = n /\ supressMsg' = FALSE /\ ~scriptRun
    BY <1>5 DEF Hook, RunScript, Receive, RunsScript, Filters
  <2>2. /\ stack \in Seq(0..Len(messages)) /\ Len(messages) \in Nat
        /\ n \in 0..(Len(messages) + 1)
    BY <1>2 DEF Calls
  <2>3. /\ stack' \in Seq(0..n) /\ stack' # <<>>
        /\ Len(stack') = Len(stack) + 1 /\ stack'[Len(stack) + 1] = n
        /\ \A i \in 1..Len(stack) : stack'[i] = stack[i]
    BY <2>1, <2>2, Pushed
  <2>4. Len(stack) \in Nat
    BY <2>2, LenProperties
  <2>5. \A i \in 1..Len(stack) : stack[i] = 0
    BY <2>1, <2>4, EmptySeq DEF FlagMirrorsStack, InScript
  <2>6. FlagMirrorsStack'
    BY <1>2, <2>1, <2>3, <2>4, <2>5 DEF FlagMirrorsStack, InScript
  <2>7. Current'
    BY <1>2, <1>3, <1>5, <1>1, <2>1, <2>3 DEF Current, InScript
  <2>8. Calls'
    BY <1>2, <1>3, <2>3 DEF Calls
  <2>9. Plugin'
    <3>1. n \in 0..n /\ lastMsg' = n /\ Len(messages') = n
      BY <1>2, <2>1
    <3>2. lastMsg' \in 0..Len(messages')
      BY <3>1
    <3> QED BY <1>1, <2>1, <3>2 DEF Plugin
  <2> QED BY <1>4, <2>6, <2>7, <2>8, <2>9
<1>6. CASE ~(runs /\ "run" \in found)
  <2>1. UNCHANGED <<stack, scriptRun>> /\ up' \in BOOLEAN
    BY <1>6 DEF Hook, RunScript, Plugin
  <2>2. /\ lastMsg' \in {lastMsg, n} /\ supressMsg' \in BOOLEAN
        /\ scriptRun => UNCHANGED <<lastMsg, supressMsg>>
    BY DEF Hook, Receive, Bypass, Filters, Plugin
  <2>3. stack' \in Seq(0..n)
    BY <1>2, <2>1, SeqMonotonic, 0..(n - 1) \subseteq 0..n DEF Calls
  <2>4. FlagMirrorsStack'
    BY <2>1 DEF FlagMirrorsStack, InScript
  <2>5. Current'
    <3>1. SUFFICES ASSUME scriptRun PROVE Current'
      BY <2>1 DEF Current
    <3>2. lastMsg = InScript /\ fate[lastMsg] = "open" /\ (supressMsg <=> lastMsg \in asked)
      BY <3>1 DEF Current
    <3>3. stack # <<>> /\ InScript # 0
      BY <3>1 DEF FlagMirrorsStack
    <3>4. lastMsg \in 1..(n - 1)
      BY <1>2, <3>2, <3>3, Top
    <3> QED BY <1>1, <1>2, <2>1, <2>2, <3>1, <3>2, <3>4 DEF Current, InScript
  <2>6. Calls'
    BY <1>2, <1>3, <2>3 DEF Calls
  <2>7. Plugin'
    BY <1>1, <1>2, <2>1, <2>2 DEF Plugin
  <2> QED BY <1>4, <2>4, <2>5, <2>6, <2>7
<1> QED BY <1>5, <1>6

-----------------------------------------------------------------------------
(* The invariant.                                                          *)

\* The parts of it say what the type invariant says.
LEMMA TypesFromParts == Calls /\ Plugin /\ answer \in Answer <=> ChatTypeOK
  BY DEF Calls, Plugin, ChatTypeOK

\* An answer that is no text of a message.
LEMMA OtherAnswer ==
    ASSUME NEW a, a = None \/ \E ok \in BOOLEAN : a = [what |-> "sent", ok |-> ok]
    PROVE  a \in Answer /\ a.what # "text"
  BY DEF Answer, None

\* The invariant holds at the start,
LEMMA InvInit == ChatInit => IInv
<1> SUFFICES ASSUME ChatInit PROVE IInv
  OBVIOUS
<1> USE DEF ChatInit
<1>1. /\ messages \in Seq(Kinds) /\ stack \in Seq(0..Len(messages))
      /\ Len(messages) = 0 /\ Len(stack) = 0 /\ stack = <<>>
  BY EmptySeq
<1>2. fate \in [1..0 -> {"open", "delivered", "withheld"}]
  <2>1. fate \in Seq({"open", "delivered", "withheld"}) /\ Len(fate) = 0
    BY EmptySeq
  <2> QED BY <2>1, LenProperties
<1>3. Calls /\ Plugin
  <2>1. lastMsg \in 0..Len(messages) /\ Len(messages) <= MaxMessages
    BY <1>1
  <2>2. fate \in [1..Len(messages) -> {"open", "delivered", "withheld"}]
    BY <1>1, <1>2
  <2>3. Calls
    BY <1>1, <2>1, <2>2 DEF Calls
  <2>4. Plugin
    BY <2>1 DEF Plugin
  <2> QED BY <2>3, <2>4
<1>4. answer \in Answer /\ OwnText
  BY OtherAnswer DEF OwnText
<1>5. FlagMirrorsStack /\ Current /\ OwnVerdict
  BY <1>1 DEF FlagMirrorsStack, Current, OwnVerdict
<1> QED BY <1>3, <1>4, <1>5 DEF IInv

\* ... and every step preserves it.
LEMMA InvNext == IInv /\ [ChatNext]_chatVars => IInv'
<1> SUFFICES ASSUME IInv, [ChatNext]_chatVars PROVE IInv'
  OBVIOUS
<1> DEFINE Rest == Calls /\ Plugin /\ FlagMirrorsStack /\ Current /\ OwnVerdict
<1>0. Rest
  BY DEF IInv
<1> SUFFICES Rest' /\ answer' \in Answer /\ OwnText'
  BY DEF IInv
<1> USE DEF pluginVars
<1>1. ASSUME NEW m \in Kinds, Say(m) PROVE Rest' /\ answer' \in Answer /\ OwnText'
  <2>1. Rest'
    BY <1>0, <1>1, HookStep DEF Say
  <2> QED BY <1>1, <2>1, OtherAnswer DEF Say, OwnText
<1>2. CASE ChatScriptEnds
  <2>1. /\ stack # <<>> /\ stack' = SubSeq(stack, 1, Len(stack) - 1) /\ ~scriptRun'
        /\ scriptRun' \in BOOLEAN
        /\ fate' = [fate EXCEPT ![InScript] = IF supressMsg THEN "withheld" ELSE "delivered"]
        /\ UNCHANGED <<found, supressMsg, lastMsg, processNPC, ignoreSilent, pChatThis,
                       messages, asked, up>>
    BY <1>2 DEF ChatScriptEnds, Running
  <2>2. FlagMirrorsStack' /\ stack' \in Seq(0..Len(messages))
    BY <1>0, <2>1, ReturnStep
  <2>3. InScript \in 1..Len(messages)
    BY <1>0, <1>2, <2>1, Top DEF ChatScriptEnds
  <2>4. supressMsg <=> InScript \in asked
    BY <1>0, <1>2, <2>1 DEF Current, FlagMirrorsStack, ChatScriptEnds
  <2>5. /\ fate' \in [1..Len(messages) -> {"open", "delivered", "withheld"}]
        /\ fate'[InScript] = IF supressMsg THEN "withheld" ELSE "delivered"
        /\ \A i \in 1..Len(messages) : i # InScript => fate'[i] = fate[i]
    BY <1>0, <2>1, <2>3 DEF Calls
  <2>6. OwnVerdict'
    BY <1>0, <2>1, <2>4, <2>5 DEF OwnVerdict
  <2>7. Calls' /\ Plugin' /\ Current'
    BY <1>0, <2>1, <2>2, <2>5 DEF Calls, Plugin, Current
  <2>8. answer' = None \/ \E ok \in BOOLEAN : answer' = [what |-> "sent", ok |-> ok]
    BY <1>2 DEF ChatScriptEnds
  <2> QED BY <2>2, <2>6, <2>7, <2>8, OtherAnswer DEF OwnText
<1>3. CASE ScriptStarts
  <2>1. /\ stack = <<>> /\ stack' = <<0>> /\ answer' = None
        /\ UNCHANGED <<found, pluginVars, messages, fate, asked, up>>
    BY <1>3 DEF ScriptStarts
  <2>2. ~scriptRun /\ 0 \in 0..Len(messages)
    BY <1>0, <2>1, LenProperties DEF FlagMirrorsStack, Calls
  <2>3. stack' \in Seq(0..Len(messages)) /\ Len(stack') = 1 /\ stack'[1] = 0
    BY <2>1, <2>2
  <2>4. Rest'
    BY <1>0, <2>1, <2>2, <2>3 DEF Calls, Plugin, FlagMirrorsStack, Current, OwnVerdict, InScript
  <2> QED BY <2>1, <2>4, OtherAnswer DEF OwnText
<1>4. CASE ScriptEnds
  <2>1. /\ stack # <<>> /\ InScript = 0 /\ stack' = SubSeq(stack, 1, Len(stack) - 1)
        /\ answer' = None
        /\ UNCHANGED <<found, pluginVars, messages, fate, asked, up>>
    BY <1>4 DEF ScriptEnds, Running
  <2>2. ~scriptRun
    BY <1>0, <2>1 DEF FlagMirrorsStack
  <2>3. FlagMirrorsStack' /\ stack' \in Seq(0..Len(messages))
    BY <1>0, <2>1, <2>2, ReturnStep
  <2>4. Calls' /\ Plugin' /\ Current' /\ OwnVerdict'
    BY <1>0, <2>1, <2>2, <2>3 DEF Calls, Plugin, Current, OwnVerdict
  <2> QED BY <2>1, <2>3, <2>4, OtherAnswer DEF OwnText
<1>5. CASE Refuse \/ SpeakAsServer
  <2>1. /\ UNCHANGED <<found, stack, pluginVars, messages, fate, asked>> /\ up' \in BOOLEAN
        /\ answer' = None \/ \E ok \in BOOLEAN : answer' = [what |-> "sent", ok |-> ok]
    BY <1>0, <1>5 DEF Refuse, SpeakAsServer, Plugin
  <2>2. Rest'
    BY <1>0, <2>1 DEF Calls, Plugin, FlagMirrorsStack, Current, OwnVerdict, InScript
  <2> QED BY <2>1, <2>2, OtherAnswer DEF OwnText
<1>6. ASSUME NEW m \in Kinds, Speak(m) PROVE Rest' /\ answer' \in Answer /\ OwnText'
  <2>1. answer' = None \/ \E ok \in BOOLEAN : answer' = [what |-> "sent", ok |-> ok]
    BY <1>6 DEF Speak
  <2>2. CASE {"chat", "get"} \subseteq found
    <3>1. Rest'
      BY <1>0, <1>6, <2>2, HookStep DEF Speak, Running
    <3> QED BY <2>1, <3>1, OtherAnswer DEF OwnText
  <2>3. CASE ~({"chat", "get"} \subseteq found)
    <3>1. UNCHANGED <<found, stack, pluginVars, messages, fate, asked>> /\ up' \in BOOLEAN
      BY <1>6, <2>3 DEF Speak
    <3>2. Rest'
      BY <1>0, <3>1 DEF Calls, Plugin, FlagMirrorsStack, Current, OwnVerdict, InScript
    <3> QED BY <2>1, <3>2, OtherAnswer DEF OwnText
  <2> QED BY <2>2, <2>3
<1>7. CASE SetFlags
  <2>1. /\ processNPC' \in BOOLEAN /\ ignoreSilent' \in BOOLEAN /\ answer' = None
        /\ UNCHANGED <<found, stack, scriptRun, supressMsg, lastMsg, pChatThis,
                       messages, fate, asked, up>>
    BY <1>0, <1>7 DEF SetFlags, Plugin
  <2>2. Rest'
    BY <1>0, <2>1 DEF Calls, Plugin, FlagMirrorsStack, Current, OwnVerdict, InScript
  <2> QED BY <2>1, <2>2, OtherAnswer DEF OwnText
<1>8. CASE Text
  <2>1. /\ scriptRun /\ up' \in BOOLEAN
        /\ answer' = None \/ answer' = [what |-> "text", of |-> lastMsg, to |-> InScript]
        /\ UNCHANGED <<found, stack, pluginVars, messages, fate, asked>>
    BY <1>0, <1>8 DEF Text, Plugin
  <2>2. Rest'
    BY <1>0, <2>1 DEF Calls, Plugin, FlagMirrorsStack, Current, OwnVerdict, InScript
  <2>3. lastMsg = InScript /\ lastMsg \in Nat
    BY <1>0, <2>1, LenProperties DEF Current, Plugin, Calls
  <2>4. answer' \in Answer /\ OwnText'
    BY <2>1, <2>3 DEF Answer, None, OwnText
  <2> QED BY <2>2, <2>4
<1>9. CASE Supress
  <2>1. /\ stack # <<>> /\ supressMsg' = (supressMsg \/ scriptRun)
        /\ asked' = (IF InScript = 0 THEN asked ELSE asked \cup {InScript})
        /\ answer' = None
        /\ UNCHANGED <<found, stack, scriptRun, lastMsg, processNPC, ignoreSilent, pChatThis,
                       messages, fate, up>>
    BY <1>9 DEF Supress, Running
  <2>2. InScript \in 0..Len(messages) /\ (scriptRun <=> InScript # 0)
    BY <1>0, <2>1, Top DEF FlagMirrorsStack
  <2>3. asked' \subseteq 1..Len(messages)
    BY <1>0, <2>1, <2>2 DEF Calls
  <2>4. scriptRun => lastMsg = InScript /\ fate[InScript] = "open" /\ InScript \in asked'
    BY <1>0, <2>1, <2>2 DEF Current
  <2>5. OwnVerdict'
    BY <1>0, <2>1, <2>2, <2>4 DEF OwnVerdict
  <2>6. Current'
    BY <2>1, <2>4 DEF Current, InScript
  <2>7. Calls' /\ Plugin' /\ FlagMirrorsStack'
    BY <1>0, <2>1, <2>3 DEF Calls, Plugin, FlagMirrorsStack, InScript
  <2> QED BY <2>1, <2>5, <2>6, <2>7, OtherAnswer DEF OwnText
<1>10. CASE UNCHANGED chatVars
  BY <1>10 DEF IInv, Calls, Plugin, FlagMirrorsStack, Current, OwnVerdict, OwnText, InScript, chatVars
<1> QED BY <1>1, <1>2, <1>3, <1>4, <1>5, <1>6, <1>7, <1>8, <1>9, <1>10 DEF ChatNext

LEMMA InvHolds == ChatSpec => []IInv
<1>1. ChatInit => IInv BY InvInit
<1>2. IInv /\ [ChatNext]_chatVars => IInv' BY InvNext
<1> QED BY <1>1, <1>2, PTL DEF ChatSpec

\* The variables have the values the code gives them; the number of scripts
\* that run is not bounded by their type.
THEOREM ChatTypeCorrect == ChatSpec => []ChatTypeOK
<1>1. IInv => ChatTypeOK
  BY TypesFromParts DEF IInv
<1> QED BY <1>1, InvHolds, PTL

\* One flag is enough: a chat script is always the innermost one, so scriptRun
\* says whether one runs, for any nesting of messages and scripts.
THEOREM FlagMirrorsStackAlways == ChatSpec => []FlagMirrorsStack
<1>1. IInv => FlagMirrorsStack BY DEF IInv
<1> QED BY <1>1, InvHolds, PTL

\* A message is withheld if and only if the script that ran for it asked for
\* that, although supressMsg is one flag for all messages.
THEOREM OwnVerdictAlways == ChatSpec => []OwnVerdict
<1>1. IInv => OwnVerdict BY DEF IInv
<1> QED BY <1>1, InvHolds, PTL

\* TEXT answers a chat script with the message it runs for.
THEOREM OwnTextAlways == ChatSpec => []OwnText
<1>1. IInv => OwnText BY DEF IInv
<1> QED BY <1>1, InvHolds, PTL

=============================================================================
