------------------------------ MODULE StageFiles ------------------------------
(***************************************************************************)
(* PUT and GET: put_files and get_files of driver/src/conn.rs, with the    *)
(* stage locations of core/src/stage.rs and the presigned requests of      *)
(* core/src/presign.rs.  One call transfers several files, one after the   *)
(* other, and answers with a row for each.                                 *)
(*                                                                         *)
(* Names and paths are sequences of characters, because what a listing     *)
(* matches is decided by their prefixes.                                   *)
(***************************************************************************)
EXTENDS Integers, Sequences, SequencesExt, FiniteSetsExt

CONSTANTS
  Chars,     \* characters of names
  Globs,     \* what a local pattern may match: sequences of [dir, base, kind]
  Locations, \* stage locations the program names: sequences of characters
  Seeds,     \* paths of files that may be in the stage already
  MaxJobs    \* bound: calls of put_files and get_files

VARIABLES
  allowPrivate, \* PresignOptions::allow_private
  named,        \* LIST answers with the stage's name before each path
  remote,       \* the stage: paths to contents
  local,        \* the destination directory: file names to contents
  job,          \* the running or last call
  jobs          \* calls made

filesVars == <<allowPrivate, named, remote, local, job, jobs>>

\* The content of a file is named by the path it was first stored under.
Absent == <<>>
Partial == <<"partial">>
At(files, path) == IF path \in DOMAIN files THEN files[path] ELSE Absent
Written(files, path, content) ==
  [p \in DOMAIN files \cup {path} |-> IF p = path THEN content ELSE files[p]]
Slash == <<"/">>
StageName == <<"s">>

-----------------------------------------------------------------------------
\* Names

\* StageLocation::try_from: the name up to the first slash, the path after it.
SlashesOf(s) == {i \in DOMAIN s : s[i] = "/"}
ParseLocation(s) ==
  LET cut == Min(SlashesOf(s) \cup {Len(s) + 1})
  IN [name |-> SubSeq(s, 2, cut - 1), path |-> SubSeq(s, cut + 1, Len(s))]

Show(loc) == <<"@">> \o loc.name \o Slash \o loc.path

\* A location without a path gets a second slash.  Mutant: the slash is left out.
FilePathBare(loc, file) == Show(loc) \o file
FilePath(loc, file) ==
  IF loc.path # <<>> /\ Last(loc.path) = "/" THEN Show(loc) \o file
  ELSE Show(loc) \o Slash \o file

BaseName(path) == SubSeq(path, Max(SlashesOf(path) \cup {0}) + 1, Len(path))

LocalPath(entry) == entry.dir \o Slash \o entry.base

Without(s, prefix) == SubSeq(s, Len(prefix) + 1, Len(s))

\* What the server makes of a stage path: the file's path, without a leading slash.
FileAt(stagePath) ==
  LET path == ParseLocation(stagePath).path
  IN IF path # <<>> /\ path[1] = "/" THEN Tail(path) ELSE path

\* LIST: every file whose path starts with the location's, in either form.
List(loc) ==
  {IF named THEN StageName \o Slash \o p ELSE p : p \in {p \in DOMAIN remote :
      remote[p] # Absent /\ IsPrefix(loc.path, p)}}

\* normalize_stage_list_entry: a listed name without the stage's, whether that is below
\* the location, and the file it names.
Relative(loc, entry) ==
  LET prefix == loc.name \o Slash
  IN IF IsPrefix(prefix, entry) THEN Without(entry, prefix) ELSE entry
IsBelow(loc, entry) == IsPrefix(loc.path, Relative(loc, entry))
Normalize(loc, entry) ==
  LET path == Relative(loc, entry)
  IN [file |-> <<"@">> \o loc.name \o Slash \o path, base |-> BaseName(path)]

\* Files have names without a slash, and paths begin with none; the locations are of
\* the one stage the model has.
IsPath(s) == s \in Seq(Chars) /\ (s # <<>> => s[1] # "/")
ASSUME StageFilesAssumption ==
  /\ MaxJobs \in Nat /\ {"@", "/", "s"} \subseteq Chars
  /\ \A g \in Globs :
       /\ g \in Seq([dir : Seq(Chars), base : Seq(Chars), kind : {"dir", "file"}])
       /\ \A i \in DOMAIN g : SlashesOf(g[i].base) = {}
  /\ \A s \in Locations :
       s \in Seq(Chars) /\ ParseLocation(s).name = StageName /\ IsPath(ParseLocation(s).path)
  /\ IsFiniteSet(Seeds) /\ \A p \in Seeds : IsPath(p)

-----------------------------------------------------------------------------
\* Calls

NoJob ==
  [op |-> "none", result |-> "ok", left |-> <<>>, rows |-> <<>>,
   loc |-> [name |-> <<>>, path |-> <<>>]]

FilesInit ==
  /\ allowPrivate \in BOOLEAN /\ named \in BOOLEAN
  /\ \E present \in SUBSET Seeds :
       remote = [p \in Seeds |-> IF p \in present THEN p ELSE Absent]
  /\ local = <<>>
  /\ job = NoJob /\ jobs = 0

NoCall == job.result # "running"

NewJob(op, loc, left) ==
  [op |-> op, result |-> "running", loc |-> loc, left |-> left, rows |-> <<>>]

Reject(op) == job' = [NoJob EXCEPT !.op = op, !.result = "error"]

\* put_files up to its loop: a bad scheme, an empty match and a bad stage location
\* are errors.
StartPut ==
  /\ NoCall /\ jobs < MaxJobs /\ jobs' = jobs + 1
  /\ \/ \E g \in Globs, s \in Locations : job' = NewJob("put", ParseLocation(s), g)
     \/ Reject("put")
  /\ UNCHANGED <<allowPrivate, named, remote, local>>

\* ensure_unique_basenames.
UniqueBasenames(files) ==
  \A i, j \in DOMAIN files : files[i].base = files[j].base => i = j

\* get_files up to its loop: scheme and directory, LIST, whose order is the server's,
\* and the two checks of what it names.
StartGet ==
  /\ NoCall /\ jobs < MaxJobs /\ jobs' = jobs + 1
  /\ \/ \E s \in Locations :
          LET loc == ParseLocation(s)
          IN \E listed \in SetToSeqs({e \in List(loc) : IsBelow(loc, e)}) :
               LET files == [i \in DOMAIN listed |-> Normalize(loc, listed[i])]
               IN IF files = <<>> \/ ~UniqueBasenames(files) THEN Reject("get")
                  ELSE job' = NewJob("get", loc, files)
     \/ Reject("get")
  /\ UNCHANGED <<allowPrivate, named, remote, local>>

\* Statistics, with the files transferred so far, and the row of this file.
Row(file, status) ==
  job' = [job EXCEPT !.left = Tail(@), !.rows = Append(@,
            [file |-> file, status |-> status,
             count |-> (IF @ = <<>> THEN 0 ELSE Last(@).count)
                       + (IF status = "SUCCESS" THEN 1 ELSE 0)])]

\* A directory gets a row; a file that cannot be opened ends the call, and with it the
\* rows; a failed upload gets a row, and may have stored the file.
PutFile ==
  /\ job.result = "running" /\ job.op = "put" /\ job.left # <<>>
  /\ LET entry == Head(job.left)
         path == FileAt(FilePath(job.loc, entry.base))
     IN \/ /\ entry.kind = "dir"
           /\ Row(LocalPath(entry), "error") /\ UNCHANGED remote
        \/ /\ entry.kind = "file"
           /\ Reject("put") /\ UNCHANGED remote
        \/ /\ entry.kind = "file"
           /\ \E stored, ok \in BOOLEAN :
                /\ ok => stored
                /\ Row(LocalPath(entry), IF ok THEN "SUCCESS" ELSE "error")
                /\ remote' = IF stored THEN Written(remote, path, LocalPath(entry)) ELSE remote
  /\ UNCHANGED <<allowPrivate, named, local, jobs>>

\* A presigned URL is used only for the method it was asked for, without user, password
\* and fragment, by https and at public addresses unless private ones are allowed.
Presigned == [method : {"GET", "PUT"}, plain : BOOLEAN, https : BOOLEAN, public : BOOLEAN]
Acceptable(u, method) ==
  /\ u.method = method /\ u.plain
  /\ u.https \/ allowPrivate
  /\ u.public \/ allowPrivate

\* PRESIGN DOWNLOAD, the request, and the file: created, or emptied, when the status is
\* known, and left as it is when the body fails.
GetFile ==
  /\ job.result = "running" /\ job.op = "get" /\ job.left # <<>>
  /\ LET f == Head(job.left)
         content == At(remote, FileAt(f.file))
     IN \/ /\ Row(f.base, "error") /\ UNCHANGED local
        \/ /\ \E u \in Presigned : Acceptable(u, "GET")
           /\ content # Absent
           /\ \/ Row(f.base, "error") /\ local' = Written(local, f.base, Partial)
              \/ Row(f.base, "SUCCESS") /\ local' = Written(local, f.base, content)
  /\ UNCHANGED <<allowPrivate, named, remote, jobs>>

EndFiles ==
  /\ job.result = "running" /\ job.left = <<>>
  /\ job' = [job EXCEPT !.result = "ok"]
  /\ UNCHANGED <<allowPrivate, named, remote, local, jobs>>

FilesNext == StartPut \/ StartGet \/ PutFile \/ GetFile \/ EndFiles

FilesSpec == FilesInit /\ [][FilesNext]_filesVars

-----------------------------------------------------------------------------
\* Properties

\* The directory a location means.
Below(loc, base) ==
  IF loc.path = <<>> THEN base
  ELSE IF Last(loc.path) = "/" THEN loc.path \o base
  ELSE loc.path \o Slash \o base

Successes(n) == Cardinality({i \in 1 .. n : job.rows[i].status = "SUCCESS"})

\* Every row says how many files have been transferred up to it.  A file that PUT
\* reports as stored is in the directory the program named, with the content of that
\* local file, also when others of the call failed; unless a later file of the call
\* has the same base name, for PUT does not look for that.
PutReport ==
  job.op = "put" =>
    \A i \in DOMAIN job.rows :
      LET base == BaseName(job.rows[i].file)
      IN /\ job.rows[i].count = Successes(i)
         /\ job.rows[i].status = "SUCCESS" =>
              \/ At(remote, Below(job.loc, base)) = job.rows[i].file
              \/ \E j \in i + 1 .. Len(job.rows) : BaseName(job.rows[j].file) = base

\* The files a GET of this location is about.
Matching(loc) == {p \in DOMAIN remote : remote[p] # Absent /\ IsPrefix(loc.path, p)}

\* A listing without the stage's name is misread below a directory of that name.
Ambiguous(loc) ==
  ~named /\ \E p \in Matching(loc) : IsPrefix(StageName \o Slash, p)

\* A GET that ends well has a row for each file of the location, in either form of
\* the listing; a file it reports as fetched holds the whole content of that file and
\* of no other, so that what is cut off is never called a success.
GetReport ==
  job.op = "get" /\ ~Ambiguous(job.loc) =>
    /\ \A i \in DOMAIN job.rows :
         /\ job.rows[i].count = Successes(i)
         /\ job.rows[i].status = "SUCCESS" =>
              \A p \in Matching(job.loc) :
                BaseName(p) = job.rows[i].file => local[job.rows[i].file] = remote[p]
    /\ job.result = "ok" =>
         {job.rows[i].file : i \in DOMAIN job.rows} = {BaseName(p) : p \in Matching(job.loc)}

\* What put_files and get_files report is what is in the stage and in the directory,
\* when one file of several fails as when all succeed.
TransfersReported == PutReport /\ GetReport

=============================================================================
