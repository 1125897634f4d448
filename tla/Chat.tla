--------------------------------- MODULE Chat ---------------------------------
(***************************************************************************)
(* The Chat plugin (HookChat.cpp, NWNXChat.cpp).  Every chat message of    *)
(* the server goes through ChatHookProc, which runs a script that may read *)
(* the message and suppress it.  The script talks to the plugin through    *)
(* the same requests as any other script, and may itself send messages,    *)
(* which come through the hook again; so may a script that has nothing to  *)
(* do with a message.  One thread: what nests is the stack of calls.       *)
(***************************************************************************)
EXTENDS Naturals, Sequences, FiniteSets

CONSTANTS
    Signatures,  \* functions of the server whose code HookFunctions may find:
                 \* its chat function, RunScript and GetPCobjByOID
    Kinds,       \* the messages that occur
    MaxMessages  \* bound: messages in a behaviour

\* What the code tells apart: the sender by its object id, the mode (5 is a
\* message of the server, 0xD and 0xE are silent), no text at all, and a text
\* that with its prefix of 12 characters fills a script's buffer of 1024.
Message == [from : {"player", "creature", "server"},
            mode : {"talk", "silent", "server"},
            text : {"none", "short", "long"}]

ASSUME ChatAssumption ==
    /\ Signatures \subseteq {"chat", "run", "get"}
    /\ Kinds \subseteq Message
    /\ MaxMessages \in Nat

VARIABLES
    found,         \* the functions of the server that were found
    stack,         \* scripts that are running, outermost first: the message
                   \* a chat script runs for, 0 for any other script
    scriptRun,     \* a chat script runs
    supressMsg,    \* the message in the hook is to be suppressed
    lastMsg,       \* the message TEXT answers with
    processNPC,    \* run the script for creatures without a player as well
    ignoreSilent,  \* run no script for messages in a silent mode
    pChatThis,     \* the server's object is known (from the first message)
    messages,      \* all messages so far, their number is their place
    fate,          \* what became of each message
    asked,         \* messages whose own script asked to suppress them
    answer,        \* what the last request answered
    up             \* the server has not crashed

pluginVars == <<scriptRun, supressMsg, lastMsg, processNPC, ignoreSilent, pChatThis>>
chatVars == <<found, stack, pluginVars, messages, fate, asked, answer, up>>

None == [what |-> "none"]
Answer == [what : {"none"}] \cup [what : {"sent"}, ok : BOOLEAN]
          \cup [what : {"text"}, of : Nat, to : Nat]

ChatTypeOK ==
    /\ found \subseteq Signatures
    /\ messages \in Seq(Kinds)
    /\ Len(messages) <= MaxMessages
    /\ stack \in Seq(0..Len(messages))
    /\ {scriptRun, supressMsg, processNPC, ignoreSilent, pChatThis, up} \subseteq BOOLEAN
    /\ lastMsg \in 0..Len(messages)
    /\ fate \in [1..Len(messages) -> {"open", "delivered", "withheld"}]
    /\ asked \subseteq 1..Len(messages)
    /\ answer \in Answer

\* processnpc and ignore_silent are 0 in nwnx.ini unless set.  OnCreate fails
\* when something was not found, but the plugin and its hook stay.
ChatInit ==
    /\ found \in SUBSET Signatures
    /\ stack = <<>>
    /\ scriptRun = FALSE
    /\ supressMsg = FALSE
    /\ lastMsg = 0
    /\ processNPC = FALSE
    /\ ignoreSilent = FALSE
    /\ pChatThis = FALSE
    /\ messages = <<>>
    /\ fate = <<>>
    /\ asked = {}
    /\ answer = None
    /\ up = TRUE

Running == up /\ stack # <<>>
InScript == stack[Len(stack)]

-----------------------------------------------------------------------------
\* CNWNXChat::Chat runs chat_script for players, and for creatures if told so,
\* and server_script for messages of the server in their own mode.
RunsScript(m) ==
    /\ m.text # "none"
    /\ ~(ignoreSilent /\ m.mode = "silent")
    /\ \/ m.from = "player"
       \/ m.from = "creature" /\ processNPC
       \/ m.from = "server" /\ m.mode = "server"

\* Mutant of Receive: supressMsg is not reset.
ReceiveKeeps(m) ==
    IF m.text = "none"
    THEN UNCHANGED <<lastMsg, supressMsg>>
    ELSE /\ lastMsg' = Len(messages) + 1
         /\ UNCHANGED supressMsg

\* The first half of Chat: the message becomes the current one.  One without a
\* text returns before that, and is not suppressed.
Receive(m) ==
    IF m.text = "none"
    THEN UNCHANGED <<lastMsg, supressMsg>>
    ELSE /\ lastMsg' = Len(messages) + 1
         /\ supressMsg' = FALSE

\* RunScript up to the call of the server: with a pointer that HookFunctions
\* has not found the call is a jump to 0.
RunScript(n) ==
    IF "run" \in found
    THEN /\ stack' = Append(stack, n)
         /\ scriptRun' = TRUE
         /\ UNCHANGED up
    ELSE /\ up' = FALSE
         /\ UNCHANGED <<stack, scriptRun>>

\* Mutant of Filters: ChatHookProc calls Chat for every message.
FiltersAll == "chat" \in found

\* ChatHookProc calls Chat unless a chat script runs.
Filters == "chat" \in found /\ ~scriptRun

\* Mutant of Bypass: Chat runs and tests scriptRun too late.
BypassReceives ==
    /\ lastMsg' = IF "chat" \in found THEN Len(messages) + 1 ELSE lastMsg
    /\ UNCHANGED supressMsg

\* A message of a chat script, or of a server without the hook.
Bypass == UNCHANGED <<lastMsg, supressMsg>>

\* Mutant of Hook: a message no script runs for does not reach the server.
HookDrops(m) ==
    /\ Filters /\ RunsScript(m)
    /\ messages' = Append(messages, m)
    /\ Receive(m)
    /\ UNCHANGED fate
    /\ RunScript(Len(messages) + 1)
    /\ pChatThis' = TRUE
    /\ UNCHANGED <<found, processNPC, ignoreSilent, asked>>

\* The server handles a chat message m: ChatHookProc, then the server's own
\* function, at once or after the script.
Hook(m) ==
    /\ messages' = Append(messages, m)
    /\ IF Filters THEN Receive(m) ELSE Bypass
    /\ IF Filters /\ RunsScript(m)
       THEN /\ fate' = Append(fate, "open")
            /\ RunScript(Len(messages) + 1)
       ELSE /\ fate' = Append(fate, "delivered")
            /\ UNCHANGED <<stack, scriptRun, up>>
    /\ pChatThis' = (pChatThis \/ "chat" \in found)
    /\ UNCHANGED <<found, processNPC, ignoreSilent, asked>>

\* A player, a creature or the server says something.
Say(m) ==
    /\ up
    /\ stack = <<>>
    /\ Len(messages) < MaxMessages
    /\ Hook(m)
    /\ answer' = None

\* RunScript returns to Chat, and Chat to ChatHookProc with supressMsg: the
\* message goes on to the server's function or ends here, which is an answer
\* of 1 all the same.
ChatScriptEnds ==
    /\ Running
    /\ InScript # 0
    /\ stack' = SubSeq(stack, 1, Len(stack) - 1)
    /\ scriptRun' = FALSE
    /\ fate' = [fate EXCEPT ![InScript] = IF supressMsg THEN "withheld" ELSE "delivered"]
    /\ \E ok \in IF supressMsg THEN {TRUE} ELSE BOOLEAN :
          answer' = IF Len(stack) = 1 THEN None ELSE [what |-> "sent", ok |-> ok]
    /\ UNCHANGED <<found, supressMsg, lastMsg, processNPC, ignoreSilent, pChatThis,
                   messages, asked, up>>

-----------------------------------------------------------------------------
\* Any other script of the module starts and ends.  The server starts none
\* while another one runs.
ScriptStarts ==
    /\ up
    /\ stack = <<>>
    /\ stack' = <<0>>
    /\ answer' = None
    /\ UNCHANGED <<found, pluginVars, messages, fate, asked, up>>

ScriptEnds ==
    /\ Running
    /\ InScript = 0
    /\ stack' = SubSeq(stack, 1, Len(stack) - 1)
    /\ answer' = None
    /\ UNCHANGED <<found, pluginVars, messages, fate, asked, up>>

\* SPEAK.  Parameters that are incomplete, a recipient who must be a player
\* and is none, and SendMsg before the server's object is known answer 0.
Refuse ==
    /\ Running
    /\ answer' = [what |-> "sent", ok |-> FALSE]
    /\ UNCHANGED <<found, stack, pluginVars, messages, fate, asked, up>>

\* NWNXSendMessage looks the recipient up first, through two pointers that
\* may be 0, and sends the message with the server's own function.
Speak(m) ==
    /\ Running
    /\ Len(messages) < MaxMessages
    /\ m.text # "none"
    /\ m.mode # "server"
    /\ IF {"chat", "get"} \subseteq found
       THEN /\ pChatThis
            /\ Hook(m)
            /\ IF stack' = stack
               THEN \E ok \in BOOLEAN : answer' = [what |-> "sent", ok |-> ok]
               ELSE answer' = None
       ELSE /\ up' = FALSE
            /\ answer' = None
            /\ UNCHANGED <<found, stack, pluginVars, messages, fate, asked>>

\* SPEAK in channel 5: SendServerMessage calls a function of the server that
\* is not hooked, with an object that is NULL before the first message.
SpeakAsServer ==
    /\ Running
    /\ IF pChatThis
       THEN /\ \E ok \in BOOLEAN : answer' = [what |-> "sent", ok |-> ok]
            /\ UNCHANGED up
       ELSE /\ answer' = None
            /\ up' = FALSE
    /\ UNCHANGED <<found, stack, pluginVars, messages, fate, asked>>

\* LOGNPC and IGNORESILENT.
SetFlags ==
    /\ Running
    /\ \/ processNPC' \in BOOLEAN /\ UNCHANGED ignoreSilent
       \/ ignoreSilent' \in BOOLEAN /\ UNCHANGED processNPC
    /\ answer' = None
    /\ UNCHANGED <<found, stack, scriptRun, supressMsg, lastMsg, pChatThis,
                   messages, fate, asked, up>>

\* TEXT: outside of a chat script nothing happens.  strcpy_s ends the process
\* when the text and its prefix do not fit into 1024 characters.
Text ==
    /\ Running
    /\ scriptRun
    /\ IF messages[lastMsg].text = "long"
       THEN /\ up' = FALSE
            /\ answer' = None
       ELSE /\ answer' = [what |-> "text", of |-> lastMsg, to |-> InScript]
            /\ UNCHANGED up
    /\ UNCHANGED <<found, stack, pluginVars, messages, fate, asked>>

\* SUPRESS 1, the same.
Supress ==
    /\ Running
    /\ supressMsg' = (supressMsg \/ scriptRun)
    /\ asked' = IF InScript = 0 THEN asked ELSE asked \cup {InScript}
    /\ answer' = None
    /\ UNCHANGED <<found, stack, scriptRun, lastMsg, processNPC, ignoreSilent, pChatThis,
                   messages, fate, up>>

ChatNext ==
    \/ \E m \in Kinds : Say(m)
    \/ ChatScriptEnds
    \/ ScriptStarts
    \/ ScriptEnds
    \/ Refuse
    \/ \E m \in Kinds : Speak(m)
    \/ SpeakAsServer
    \/ SetFlags
    \/ Text
    \/ Supress

ChatSpec == ChatInit /\ [][ChatNext]_chatVars

-----------------------------------------------------------------------------
\* scriptRun is one flag for a stack of calls: it must say that a chat script
\* runs, of which there is one at most and nothing on top of it, however
\* messages and scripts nest (RunScript, ChatHookProc).
FlagMirrorsStack ==
    /\ \A i \in 1..Len(stack) : stack[i] # 0 => i = Len(stack)
    /\ scriptRun <=> (stack # <<>> /\ InScript # 0)

\* supressMsg is one flag for all messages.  A message is withheld if and only
\* if the script that ran for this very message asked for it; what other
\* scripts ask, and what was asked for earlier messages or for messages that
\* the script itself sends, does not matter.
OwnVerdict ==
    \A n \in 1..Len(messages) :
        /\ fate[n] = "withheld" => n \in asked
        /\ fate[n] = "delivered" => n \notin asked

\* TEXT gives a chat script the message it runs for, also after it has sent
\* messages of its own through the same hook.
OwnText == answer.what = "text" => answer.of = answer.to

=============================================================================
