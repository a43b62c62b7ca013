----------------------------- MODULE SessionPaths -----------------------------
(***************************************************************************)
(* src/src/server/session.c and the path handling of handle.c: a session   *)
(* has a virtual path, commands put real paths together from it in buffers *)
(* of MaxPath bytes, and the kernel looks those up.                        *)
(*                                                                         *)
(* Paths are strings here, character by character, because the code cuts   *)
(* them to the buffer and looks at no result of snprintf.  What a path     *)
(* means is decided by Resolve, the kernel's lookup.  The order of the     *)
(* system calls inside a command is the subject of Conversation.           *)
(***************************************************************************)
EXTENDS Utils, FileSystem

CONSTANTS Sessions,
          Users,     \* the names of users.conf
          Names,     \* arguments clients send
          DataRoot,  \* data_root of mycloud.conf
          MaxPath,   \* MAX_PATH_SIZE
          MaxDepth,  \* bound: directories below each other
          MaxObjects \* bound: files and directories

ASSUME PathsAssumption ==
  /\ MaxPath \in Nat /\ MaxDepth \in Nat /\ MaxObjects \in Nat
  /\ Users \subseteq Seq(STRING) /\ IsFiniteSet(Users) /\ Names \subseteq Seq(STRING)
  /\ DataRoot \in Seq(STRING) /\ DataRoot # <<>> /\ Len(DataRoot) < MaxPath
  \* The users' own directories fit their buffer, and so does a name cut to "..".
  /\ \A u \in Users : IsValidName(u) /\ Len(DataRoot) + Len(u) + 5 < MaxPath

\* data_root does not lead back up on its way, so that nothing the server makes
\* for one user is a directory of another.
ASSUME DataRootAssumption ==
  \A i \in DOMAIN Components(DataRoot) : Components(DataRoot)[i] # <<".", ".">>

VARIABLES
  session, \* session_t: is_login, user_name, user_root, current_path
  kind,    \* the disk: what each existing path is, a path being its names from the top
  answer   \* the last reply, and to whom

vars == <<session, kind, answer>>
-----------------------------------------------------------------------------
\* mkdir of one path, which may exist; ensure_dir, on a disk that has room.
MakeDir(disk, path) ==
  LET at == Resolve(disk, path)
  IN  IF at = Nowhere \/ Exists(disk, at) THEN disk ELSE Put(disk, at, "dir")

MakeAll(disk, paths) ==
  LET made[i \in 0 .. Len(paths)] ==
        IF i = 0 THEN disk ELSE MakeDir(made[i - 1], paths[i])
  IN  made[Len(paths)]

EnsureDir(disk, path) == MakeAll(disk, DirPrefixes(path, MaxPath))

\* user_root
RootOf(u) == Fit(DataRoot \o Slash \o u, MaxPath)

\* server_prepare_user_dirs
PreparedDisk ==
  LET order == SetToSeq(Users)
      ready[i \in 0 .. Len(order)] ==
        IF i = 0 THEN EnsureDir(<<>>, DataRoot) ELSE EnsureDir(ready[i - 1], RootOf(order[i]))
  IN  ready[Len(order)]

Reply(s, ask, ok) == [to |-> s, ask |-> ask, ok |-> ok, text |-> <<>>, names |-> {}]

\* The directory that is the user's.
HomeOf(u) == Resolve(PreparedDisk, DataRoot \o Slash \o u)

Init ==
  /\ session = [s \in Sessions |-> [login |-> FALSE, user |-> <<>>, root |-> <<>>, cwd |-> Slash]]
  /\ kind = PreparedDisk
  /\ answer \in {Reply(s, <<>>, FALSE) : s \in Sessions}

\* session_build_current_real_path, session_build_target_path; and one that
\* forgets where the session stands.
CurrentReal(s) ==
  Fit(session[s].root \o (IF session[s].cwd = Slash THEN <<>> ELSE session[s].cwd), MaxPath)
TargetAtRoot(s, name) == Fit(session[s].root \o Slash \o name, MaxPath)
Target(s, name) == Fit(CurrentReal(s) \o Slash \o name, MaxPath)

At(s, name) == Resolve(kind, Target(s, name))

\* session_login
Login(s, u) ==
  /\ ~session[s].login
  /\ session' = [session EXCEPT ![s] =
                   [login |-> TRUE, user |-> u, root |-> RootOf(u), cwd |-> Slash]]
  /\ kind' = EnsureDir(kind, RootOf(u))
  /\ answer' = Reply(s, <<"login", u>>, TRUE)

\* A second login, or one of a user who is not in users.conf; and anything
\* else before the first.
LoginRefused(s, u) ==
  /\ session[s].login \/ u \notin Users
  /\ answer' = Reply(s, <<"login", u>>, FALSE)
  /\ UNCHANGED <<session, kind>>

TooEarly(s) ==
  /\ ~session[s].login
  /\ answer' = Reply(s, <<"other">>, FALSE)
  /\ UNCHANGED <<session, kind>>

Pwd(s) ==
  /\ session[s].login
  /\ answer' = [Reply(s, <<"pwd">>, TRUE) EXCEPT !.text = session[s].cwd]
  /\ UNCHANGED <<session, kind>>

\* handle_ls: what readdir finds (its order, and the size of the reply, are
\* the subject of Listing).
Ls(s) ==
  LET dir == Resolve(kind, CurrentReal(s))
      ok  == IsDir(kind, dir)
  IN  /\ session[s].login
      /\ answer' = [Reply(s, <<"ls">>, ok) EXCEPT !.names =
                      IF ok THEN {name \in Names : Append(dir, name) \in DOMAIN kind} ELSE {}]
      /\ UNCHANGED <<session, kind>>

\* session_cd_child; the session keeps its path when the new one is too long.
ChildOf(cwd, name) ==
  LET base == IF cwd = Slash THEN <<>> ELSE cwd
  IN  IF Len(base) + Len(name) + 2 >= MaxPath THEN cwd ELSE base \o Slash \o name

\* A faulty Cd that does not ask whether the target is a directory.
CdIntoAnything(s, name) ==
  LET ok == IsValidName(name) /\ Exists(kind, At(s, name))
  IN  /\ session[s].login
      /\ session' = IF ok THEN [session EXCEPT ![s].cwd = ChildOf(@, name)] ELSE session
      /\ answer' = Reply(s, <<"cd", name>>, ok)
      /\ kind' = kind

Cd(s, name) ==
  LET at == At(s, name)
      ok == IsValidName(name) /\ at # Nowhere /\ IsDir(kind, at)
  IN  /\ session[s].login
      /\ session' = IF ok THEN [session EXCEPT ![s].cwd = ChildOf(@, name)] ELSE session
      /\ answer' = Reply(s, <<"cd", name>>, ok)
      /\ kind' = kind

\* session_cd_parent: the path is cut at its last '/', the first one stays.
LastSlash(path) == CHOOSE i \in DOMAIN path : path[i] = Root /\ \A j \in i + 1 .. Len(path) : path[j] # Root
ParentOf(cwd) ==
  IF cwd = Slash THEN cwd
  ELSE IF LastSlash(cwd) = 1 THEN Slash ELSE SubSeq(cwd, 1, LastSlash(cwd) - 1)

CdParent(s) ==
  /\ session[s].login
  /\ session' = [session EXCEPT ![s].cwd = ParentOf(@)]
  /\ answer' = Reply(s, <<"cd">>, TRUE)
  /\ kind' = kind

\* A handler that checks the name, then the target, and may be refused by
\* the disk.
Change(s, ask, possible, disk) ==
  /\ session[s].login
  /\ session' = session
  /\ \/ /\ IsValidName(ask[2]) /\ possible
        /\ kind' = disk
        /\ answer' = Reply(s, ask, TRUE)
     \/ /\ kind' = kind
        /\ answer' = Reply(s, ask, FALSE)

\* mkdir fails on a path that exists.
Mkdir(s, name) ==
  LET at == At(s, name)
  IN  /\ Len(at) <= MaxDepth + Len(HomeOf(session[s].user))
      /\ Cardinality(DOMAIN kind \cup {at}) <= MaxObjects
      /\ Change(s, <<"mkdir", name>>, at # Nowhere /\ ~Exists(kind, at), Put(kind, at, "dir"))

Rm(s, name) ==
  LET at == At(s, name)
  IN  Change(s, <<"rm", name>>, at \in DOMAIN kind /\ kind[at] = "file",
             [p \in DOMAIN kind \ {at} |-> kind[p]])

\* open with O_CREAT and O_TRUNC fails on a directory.
Puts(s, name) ==
  LET at == At(s, name)
  IN  /\ Cardinality(DOMAIN kind \cup {at}) <= MaxObjects
      /\ Change(s, <<"puts", name>>, at # Nowhere /\ ~IsDir(kind, at), Put(kind, at, "file"))

Gets(s, name) ==
  LET at == At(s, name)
  IN  /\ session[s].login
      /\ answer' = Reply(s, <<"gets", name>>,
                        IsValidName(name) /\ at \in DOMAIN kind /\ kind[at] = "file")
      /\ UNCHANGED <<session, kind>>

Next ==
  \E s \in Sessions :
    \/ \E u \in Users : Login(s, u)
    \/ \E u \in Users \cup Names : LoginRefused(s, u)
    \/ TooEarly(s) \/ Pwd(s) \/ Ls(s) \/ CdParent(s)
    \/ \E name \in Names : Cd(s, name) \/ Mkdir(s, name) \/ Rm(s, name) \/ Puts(s, name) \/ Gets(s, name)

Spec == Init /\ [][Next]_vars
-----------------------------------------------------------------------------
Below(top, path) == Len(path) >= Len(top) /\ SubSeq(path, 1, Len(top)) = top

\* Whatever name a client sends and however a path is cut, the kernel is
\* never asked for anything outside the directory of the session's user
\* (docs/superpowers/specs/2026-04-17-phase1-design.md:207).
PathsStayHome ==
  \A s \in Sessions : session[s].login =>
    \A path \in {CurrentReal(s)} \cup {Target(s, name) : name \in {n \in Names : IsValidName(n)}} :
      LET at == Resolve(kind, path) IN at = Nowhere \/ Below(HomeOf(session[s].user), at)

\* A session always stands in a directory that exists, also when its virtual
\* path does not fit and cd has been told OK for a name that was cut; and that
\* virtual path fits its own buffer (session.c:124-191).
StandsSomewhere ==
  \A s \in Sessions :
    /\ Len(session[s].cwd) < MaxPath
    /\ session[s].login =>
         LET at == Resolve(kind, CurrentReal(s)) IN at # Nowhere /\ IsDir(kind, at)

\* The paths and places of Homes, read off the disk and the virtual paths.
Top == Resolve(PreparedDisk, DataRoot)
VirtualNames(cwd) == IF cwd = Slash THEN <<>> ELSE Tail(Components(cwd))
Place ==
  [s \in Sessions |->
    IF session[s].login THEN <<session[s].user>> \o VirtualNames(session[s].cwd) ELSE <<>>]
TreeOf(disk) ==
  LET below(p) == SubSeq(p, Len(Top) + 1, Len(p))
  IN  [q \in {below(p) : p \in {d \in DOMAIN disk : Len(d) > Len(Top)}} |-> disk[Top \o q]]
Tree == TreeOf(kind)
Said == [answer EXCEPT !.text = IF @ = <<>> THEN @ ELSE VirtualNames(@)]

Homes == INSTANCE Homes WITH
  Valid <- IsValidName, place <- Place, tree <- Tree, answer <- Said

\* The command that this step answers was put together in a buffer it fits.
PathFits ==
  LET me  == session[answer'.to]
      ask == answer'.ask
  IN  Len(me.root \o me.cwd) + (IF Len(ask) = 2 THEN 1 + Len(ask[2]) ELSE 0) < MaxPath

\* A command whose path fits its buffer does what Homes says, wherever commands
\* whose paths were cut have led before: it is about the entry of that name,
\* where the session stands, below its user's directory (session.c:93-114,
\* handle.c:254-455).
HomesSpec == Homes!Init /\ [][PathFits => [Homes!Next]_(Homes!homeVars)]_vars
=============================================================================
