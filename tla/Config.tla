------------------------------- MODULE Config -------------------------------
(***************************************************************************)
(* src/src/common/config.c: mycloud.conf and users.conf are read line by   *)
(* line through a buffer of MAX_LINE_SIZE bytes, as the server's main does *)
(* at its start; then handle_login asks config_user_exists.                *)
(***************************************************************************)
EXTENDS Utils

CONSTANTS
  FilePairs, \* what the two files may be: sequences of lines `conf` and `names`
  TextKeys,  \* server_ip, log_file and data_root
  NumberKeys,\* server_port and thread_num
  Default,   \* what config_set_default gives each key
  LevelKey,  \* log_level
  LineSize,  \* MAX_LINE_SIZE
  KeySize,   \* 64, the buffer for a key
  ValueSize, \* MAX_PATH_SIZE, the buffer for a value
  TextSize,  \* the size of each text setting
  NameSize,  \* MAX_NAME_SIZE
  MaxUsers   \* MAX_USERS

Keys == TextKeys \cup NumberKeys \cup {LevelKey}

ASSUME ConfigAssumption ==
  /\ {LineSize, KeySize, ValueSize, NameSize, MaxUsers} \subseteq Nat \ {0, 1}
  /\ TextSize \in [TextKeys -> Nat \ {0, 1}]
  /\ DOMAIN Default = Keys
  /\ \A key \in Keys : key # <<>> /\ Len(key) + 1 < KeySize

\* Lines of text: sequences of characters that end no line.
IsText(lines) ==
  \A i \in DOMAIN lines : lines[i] \in Seq(STRING) /\ Range(lines[i]) \cap NewLine = {}
ASSUME FilesAssumption ==
  \A pair \in FilePairs : /\ pair.conf \in Seq(Seq(STRING)) /\ IsText(pair.conf)
                          /\ pair.names \in Seq(Seq(STRING)) /\ IsText(pair.names)

VARIABLES
  conf,     \* the lines of mycloud.conf
  names,    \* the lines of users.conf
  rest,     \* what of the file that is open is not read yet
  phase,    \* "conf", "users", "ready" or "failed"
  settings, \* g_config
  users     \* the first g_user_count rows of g_users

vars == <<conf, names, rest, phase, settings, users>>

\* The characters of a file: a newline ends every line, or all but the last.
Stream(lines) == FlattenSeq([i \in DOMAIN lines |-> Append(lines[i], "\n")])
Files(lines) == {Stream(lines)} \cup
  (IF lines = <<>> THEN {} ELSE {Front(Stream(lines))})

\* fopen succeeds for both files, or fails for the first.
Init ==
  /\ \E pair \in FilePairs : conf = pair.conf /\ names = pair.names
  /\ rest \in Files(conf)
  /\ phase \in {"conf", "failed"}
  /\ settings = Default
  /\ users = <<>>

\* The line that is read next; it says nothing when blank or a comment.
Line == TrimSpace(TrimNewline(Fgets(rest, LineSize)))
Skipped(line) == Fit(line, 2) \in {<<>>, <<"#">>}

ReadLine ==
  /\ rest # <<>>
  /\ rest' = Drop(rest, Len(Fgets(rest, LineSize)))
  /\ UNCHANGED <<conf, names>>

\* sscanf(line, "%63[^=]=%511[^\n]", key, value): no value when the key does
\* not end at the '=' within its buffer; without the trim_space (faulty).
KeyUntrimmed(line) == Span(line, Range(line) \ {"="}, KeySize - 1)
Key(line) == TrimSpace(Span(line, Range(line) \ {"="}, KeySize - 1))
Value(line) ==
  LET tail == Drop(line, Len(Span(line, Range(line) \ {"="}, KeySize - 1)))
  IN  IF tail = <<>> \/ tail[1] # "=" \/ line[1] = "=" THEN <<>>
      ELSE TrimSpace(Span(Tail(tail), Range(tail) \ {"\n"}, ValueSize - 1))

\* config_parse_log_level.
Level(value) ==
  CASE value = <<"D", "E", "B", "U", "G">> -> "DEBUG"
    [] value = <<"E", "R", "R", "O", "R">> -> "ERROR"
    [] OTHER -> "INFO"

\* atoi of a value without a sign: the digits it begins with.
Digits == <<"0", "1", "2", "3", "4", "5", "6", "7", "8", "9">>
Atoi(value) ==
  LET digits == Span(value, Range(Digits), Len(value))
      number[i \in 0 .. Len(digits)] ==
        IF i = 0 THEN 0
        ELSE 10 * number[i - 1] + (CHOOSE d \in 0 .. 9 : Digits[d + 1] = digits[i])
  IN  number[Len(digits)]

Converted(key, value) ==
  IF key \in NumberKeys THEN Atoi(value)
  ELSE IF key = LevelKey THEN Level(value)
  ELSE Fit(value, TextSize[key])

\* A line of mycloud.conf.
ReadSetting ==
  /\ phase = "conf" /\ ReadLine
  /\ settings' = IF Skipped(Line) \/ "=" \notin Range(Line) \/ Key(Line) \notin Keys
                 THEN settings
                 ELSE [settings EXCEPT ![Key(Line)] = Converted(Key(Line), Value(Line))]
  /\ UNCHANGED <<phase, users>>

OpenUsers ==
  /\ phase = "conf" /\ rest = <<>>
  /\ phase' = "users"
  /\ rest' \in Files(names)
  /\ UNCHANGED <<conf, names, settings, users>>

OpenUsersFails ==
  /\ phase = "conf" /\ rest = <<>>
  /\ phase' = "failed"
  /\ UNCHANGED <<conf, names, rest, settings, users>>

\* A line of users.conf, while there is room.
Room == Len(users) < MaxUsers
SkipUser ==
  /\ phase = "users" /\ ReadLine
  /\ Skipped(Line)
  /\ UNCHANGED <<phase, settings, users>>

ReadUser ==
  /\ phase = "users" /\ ReadLine
  /\ ~Skipped(Line) /\ Room
  /\ users' = Append(users, Fit(Line, NameSize))
  /\ UNCHANGED <<phase, settings>>

UsersLoaded ==
  /\ phase = "users"
  /\ rest = <<>> \/ (~Skipped(Line) /\ ~Room)
  /\ phase' = "ready"
  /\ rest' = <<>>
  /\ UNCHANGED <<conf, names, settings, users>>

Next == \/ ReadSetting \/ OpenUsers \/ OpenUsersFails
        \/ SkipUser \/ ReadUser \/ UsersLoaded

Spec == Init /\ [][Next]_vars

\* config_user_exists; and one that is content with a beginning (faulty).
UserExistsPrefix(name) == \E i \in DOMAIN users : name # <<>> /\ IsPrefix(name, users[i])
UserExists(name) == \E i \in DOMAIN users : name # <<>> /\ users[i] = name
-----------------------------------------------------------------------------
\* No line is longer than the buffer, and no key with the blanks behind it.
ShortLines(lines) ==
  \A i \in DOMAIN lines : /\ Len(lines[i]) < LineSize
                          /\ "=" \in Range(lines[i]) => Len(KeyUntrimmed(lines[i])) < KeySize - 1

\* The words of a line that are no comment, from the lines as they stand in the
\* file.
IsEntry(line) == LET text == {i \in DOMAIN line : line[i] \notin Blank}
                 IN  text # {} /\ line[Min(text)] # "#"
Bare(line) == LET text == {i \in DOMAIN line : line[i] \notin Blank}
              IN  IF text = {} THEN <<>> ELSE SubSeq(line, Min(text), Max(text))

\* The entries among the first k lines.
Entries(lines, k) == {i \in 1 .. k : IsEntry(lines[i])}

\* What is tried as a user name: nothing, and whatever stands in some file.
WrittenNames ==
  {<<>>} \cup UNION {{Bare(pair.names[i]) : i \in DOMAIN pair.names} : pair \in FilePairs}

\* What stands before and after the first "=" of a line that has one.
Cut(line) == Min({i \in DOMAIN line : line[i] = "="})
Sets(line, key) ==
  /\ IsEntry(line) /\ "=" \in Range(line)
  /\ Bare(SubSeq(line, 1, Cut(line) - 1)) = key

\* In the end every setting has the value of the last line that names it, cut
\* to the buffers it goes through, or its default: an empty, foreign or commented
\* line changes none (config.c:74-111).
SettingsAsWritten ==
  phase = "ready" /\ ShortLines(conf) =>
    \A key \in Keys :
      LET lines == {i \in DOMAIN conf : Sets(conf[i], key)}
          line  == conf[Max(lines)]
      IN  settings[key] =
            IF lines = {} THEN Default[key]
            ELSE Converted(key, Bare(Fit(Drop(line, Cut(line)), ValueSize)))

\* Who can log in is who is among the first MAX_USERS names of users.conf, and
\* nobody else: no comment, no empty name, no part of a name (config.c:137-155,
\* 233-249).
LogInAsWritten ==
  phase = "ready" /\ ShortLines(names) =>
    LET first == {i \in DOMAIN names :
                    IsEntry(names[i]) /\ Cardinality(Entries(names, i)) <= MaxUsers}
        known == {Fit(Bare(names[i]), NameSize) : i \in first}
    IN  {name \in known \cup WrittenNames : UserExists(name)} = known
=============================================================================
