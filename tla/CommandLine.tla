----------------------------- MODULE CommandLine -----------------------------
(***************************************************************************)
(* From the line a user types to the command the server runs:              *)
(* client_login, client_read_command and the checks of client_run_loop     *)
(* (src/src/client/client.c, command.c), then split_command at the server  *)
(* (src/src/server/handle.c, src/src/common/utils.c), whose users are      *)
(* those it has loaded (Config).                                           *)
(*                                                                         *)
(* The text alone is followed here: a request is split by the server in    *)
(* the step that sends it, the exchange of messages is Conversation's.     *)
(***************************************************************************)
EXTENDS Config

CONSTANTS Lines,       \* what the user may type
          MaxTyped,    \* bound: lines typed in one run
          Served,      \* bound: the files with which clients are run
          CmdSize,     \* MAX_CMD_SIZE
          ArgSize      \* MAX_ARG_SIZE

ASSUME CommandLineAssumption ==
  /\ Served \subseteq FilePairs
  /\ \A line \in Lines : IsText(<<line>>)
  /\ {MaxTyped, CmdSize, ArgSize} \subseteq Nat \ {0, 1}
  /\ NameSize <= ArgSize /\ NameSize + 6 <= LineSize
  /\ 6 < CmdSize  \* a cut word is no command: the longest has five letters

VARIABLES
  typed,   \* the lines typed so far
  input,   \* what of standard input is not read yet
  closed,  \* whether nothing follows
  stage,   \* "login", "loop" or "left"
  prompt,  \* user_name of the client
  user,    \* user_name of the server's session
  handled, \* the commands the server has dispatched since the login
  since    \* history: how many lines the login took

clientVars == <<typed, input, closed, stage, prompt, user, handled, since>>

LoginWord == <<"l", "o", "g", "i", "n">>
QuitWord == <<"q", "u", "i", "t">>
PutsWord == <<"p", "u", "t", "s">>
NeedArg == {<<"c", "d">>, <<"m", "k", "d", "i", "r">>, <<"r", "m">>,
            PutsWord, <<"g", "e", "t", "s">>}
Commands == NeedArg \cup {<<"p", "w", "d">>, <<"l", "s">>, QuitWord}

ClientInit ==
  /\ Init
  /\ typed = <<>> /\ input = <<>> /\ closed = FALSE
  /\ stage = "login"
  /\ prompt = <<>> /\ user = <<>>
  /\ handled = <<>> /\ since = 0

BufferSize == IF stage = "login" THEN NameSize ELSE LineSize

\* The user types a line, the last one perhaps without a newline.
Type(line) ==
  /\ stage # "left" /\ input = <<>> /\ ~closed
  /\ Len(typed) < MaxTyped
  /\ typed' = Append(typed, line)
  /\ \/ closed' = FALSE /\ input' = Append(line, "\n")
     \/ closed' = TRUE /\ input' = line
  /\ UNCHANGED <<stage, prompt, user, handled, since>>

CloseInput ==
  /\ input = <<>> /\ ~closed
  /\ closed' = TRUE
  /\ UNCHANGED <<typed, input, stage, prompt, user, handled, since>>

\* fgets returns NULL: the login fails or the loop ends.
EndOfInput ==
  /\ stage # "left" /\ input = <<>> /\ closed
  /\ stage' = "left"
  /\ UNCHANGED <<typed, input, closed, prompt, user, handled, since>>

\* client_read_command, and the same three calls in client_login.
Input == TrimSpace(TrimNewline(Fgets(input, BufferSize)))
ReadInput ==
  /\ input # <<>>
  /\ input' = Drop(input, Len(Fgets(input, BufferSize)))
  /\ UNCHANGED <<typed, closed>>

\* The login request and what the server makes of it.
LoginRequest == Fit(LoginWord \o <<" ">> \o Input, LineSize)
Asked == SplitCommand(LoginRequest, CmdSize, ArgSize)
Known == Asked.cmd = LoginWord /\ IsValidName(Asked.arg) /\ UserExists(Asked.arg)

LoggedIn ==
  /\ stage = "login" /\ ReadInput
  /\ Input \notin {<<>>, QuitWord} /\ Known
  /\ stage' = "loop"
  /\ prompt' = Fit(Input, NameSize)
  /\ user' = Fit(Asked.arg, NameSize)
  /\ since' = Len(typed)
  /\ handled' = handled

NotLoggedIn ==
  /\ stage = "login" /\ ReadInput
  /\ Input # QuitWord /\ ~Known
  /\ UNCHANGED <<stage, prompt, user, handled, since>>

GivesUp ==
  /\ stage = "login" /\ ReadInput
  /\ Input = QuitWord
  /\ stage' = "left"
  /\ UNCHANGED <<prompt, user, handled, since>>

\* Whether the client sends the line.
Accepted(split) == split.count > 0 /\ split.cmd \in Commands
                     /\ (split.cmd \in NeedArg => split.arg # <<>>)

\* Empty, unknown or without its argument: nothing is sent.
NotSent ==
  /\ stage = "loop" /\ ReadInput
  /\ ~Accepted(SplitCommand(Input, CmdSize, ArgSize))
  /\ UNCHANGED <<stage, prompt, user, handled, since>>

\* puts of a local file that is not there: nothing is sent either.
NoLocalFile ==
  /\ stage = "loop" /\ ReadInput
  /\ LET own == SplitCommand(Input, CmdSize, ArgSize)
     IN  Accepted(own) /\ own.cmd = PutsWord
  /\ UNCHANGED <<stage, prompt, user, handled, since>>

\* The whole line goes to the server, which splits it again.
Sent ==
  /\ stage = "loop" /\ ReadInput
  /\ Accepted(SplitCommand(Input, CmdSize, ArgSize))
  /\ LET its == SplitCommand(Fit(Input, LineSize), CmdSize, ArgSize)
     IN  /\ handled' = Append(handled, [cmd |-> its.cmd, arg |-> its.arg])
         /\ stage' = IF its.cmd = QuitWord THEN "left" ELSE "loop"
  /\ UNCHANGED <<prompt, user, since>>

\* The client talks to a server that has loaded its users.
ClientRuns ==
  /\ phase = "ready" /\ [conf |-> conf, names |-> names] \in Served
  /\ \/ \E line \in Lines : Type(line)
     \/ CloseInput \/ EndOfInput
     \/ LoggedIn \/ NotLoggedIn \/ GivesUp
     \/ NotSent \/ NoLocalFile \/ Sent
  /\ UNCHANGED vars

ClientSpec ==
  /\ ClientInit
  /\ [][ClientRuns \/ (Next /\ UNCHANGED clientVars)]_<<vars, clientVars>>
-----------------------------------------------------------------------------
\* What a line says, by the places of its words and of the blanks between.
Text(line) == {i \in DOMAIN line : line[i] \notin Blank}
Reading(line) ==
  LET first == Min(Text(line))
      last  == Max(Text(line))
      gap   == {i \in first .. last : line[i] \in Blank}
      end   == IF gap = {} THEN last ELSE Min(gap) - 1
  IN  [cmd |-> SubSeq(line, first, end),
       arg |-> IF gap = {} THEN <<>>
               ELSE SubSeq(line, Min({i \in Text(line) : i > end}), last)]

IsCommand(line) ==
  /\ Text(line) # {}
  /\ Reading(line).cmd \in Commands
  /\ Reading(line).cmd \in NeedArg => Reading(line).arg # <<>>

\* No line typed is longer than the buffer it is read into, and no argument than
\* its own.
LinesFit ==
  \A i \in DOMAIN typed :
    /\ Len(typed[i]) < IF since = 0 \/ i <= since THEN NameSize ELSE LineSize
    /\ Text(typed[i]) # {} => Len(Reading(typed[i]).arg) < ArgSize

\* A session belongs to a user whose name stands in users.conf and was typed as
\* a line of its own, and the client's prompt shows the name the server has in
\* its session, whatever follows (client.c:107-136, handle.c:155-180).
LoginAsTyped ==
  since > 0 /\ LinesFit =>
    /\ prompt = user /\ user = Bare(typed[since])
    /\ ShortLines(names) => \E i \in DOMAIN names :
         IsEntry(names[i]) /\ user = Fit(Bare(names[i]), NameSize)

\* Between two lines the server has run what the lines typed since the login
\* say, one command for one line, in order, each on the whole of its argument;
\* of the puts among them any may be missing, for want of a local file
\* (client.c:149-209, handle.c:65-142).  Not so for a line longer than the
\* buffer: its tail is taken for a line.
OneLineOneCommand ==
  since > 0 /\ input = <<>> /\ LinesFit =>
    \E place \in [DOMAIN handled -> since + 1 .. Len(typed)] :
      /\ \A i, j \in DOMAIN handled : i < j => place[i] < place[j]
      /\ \A i \in DOMAIN handled :
           IsCommand(typed[place[i]]) /\ handled[i] = Reading(typed[place[i]])
      /\ \A k \in since + 1 .. Len(typed) :
           IsCommand(typed[k]) /\ Reading(typed[k]).cmd # PutsWord => k \in Range(place)
=============================================================================
