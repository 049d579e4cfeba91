----------------------------- MODULE ConfigFile ------------------------------
(***************************************************************************)
(* The edits of config.ini in main.cpp, one file operation at a time, with *)
(* a crash of the process between any two of them, and with operations     *)
(* that fail.  Some of them the code checks, and returns; the opening of   *)
(* config_bak.ini, what is written to either file, and truncate, remove    *)
(* and rename it does not check, and goes on.                              *)
(*                                                                         *)
(* A file is a sequence of letters: Newline, Clusters ("[pegasus.clusters]"*)
(* ), DataDir ("data_dir =" and what follows), Other (one character of any *)
(* other text), Key ("skv_offline = ") and the hosts.  The single line that*)
(* input_skv_config or deal_skv_config writes reaches the file as a whole  *)
(* or not at all; of a copy that fails, the lines before the failure do.   *)
(*                                                                         *)
(* Only input_skv_config takes config_mutex_.  It may run in any number of *)
(* threads; the other edits are made by one thread while no other edits.   *)
(***************************************************************************)
EXTENDS Integers, Sequences, SequencesExt, FiniteSetsExt

CONSTANTS Threads, Editor,   \* the threads that input, the one that deals and replaces
          Hosts,
          Newline, Clusters, DataDir, NewDataDir, Other, Key,
          NoFile, Unlocked,
          InitialFiles,      \* what config.ini holds at first
          MaxEdits, MaxCrashes   \* bounds: calls made and crashes survived

Alphabet == {Newline, Clusters, DataDir, NewDataDir, Other, Key} \cup Hosts

ASSUME ConfigAssumption == /\ InitialFiles \subseteq Seq(Alphabet)
                           /\ NoFile \notin Seq(Alphabet)
                           /\ Key # Newline /\ Newline \notin Hosts
                           /\ Editor \notin Threads /\ Unlocked \notin Threads

VARIABLES src, bak,          \* config.ini and config_bak.ini
          config_mutex_,     \* the thread that holds it
          at,                \* per thread: the next file operation of its call, or "idle"
          host,              \* per thread: the argument of its call
          cut,               \* deal: the length to which the file is truncated
          opened,            \* history: config.ini when the call in progress began
          whole,             \* history: every call so far that left a backup file also used it up
          failed,            \* history: this call could not truncate, or not open or write the copy
          edits, crashes

history == <<opened, whole, failed>>
bounded == <<edits, crashes>>
cfgVars == <<src, bak, config_mutex_, at, host, cut, history, bounded>>

All == Threads \cup {Editor}

CfgInit == /\ src \in InitialFiles
           /\ bak = NoFile
           /\ config_mutex_ = Unlocked
           /\ at = [t \in All |-> "idle"]
           /\ host = [t \in All |-> CHOOSE h \in Hosts : TRUE]
           /\ cut = 0
           /\ opened = src
           /\ whole = TRUE
           /\ failed = FALSE
           /\ edits = 0
           /\ crashes = 0

(* The line that begins after the first n letters, up to the next newline  *)
(* or the end.                                                             *)
LineAt(file, n) ==
  LET ends == {k \in (n + 1)..Len(file) : file[k] = Newline}
  IN  SubSeq(file, n + 1, Min(ends \cup {Len(file) + 1}) - 1)

LineStarts(file) == {0} \cup {k \in 1..Len(file) : file[k] = Newline}

SkvLine(h) == <<Key, h>>

SkvLines(file) == {n \in LineStarts(file) : Head(LineAt(file, n) \o <<Other>>) = Key}

Begin(t, h, first) == /\ edits < MaxEdits
                      /\ edits' = edits + 1
                      /\ at' = [at EXCEPT ![t] = first]
                      /\ host' = [host EXCEPT ![t] = h]

GoOn(t, to) == at' = [at EXCEPT ![t] = to]

------------------------------------------------------------------------------
(* input_skv_config                                                        *)

MutexTakenBy(t) == config_mutex_' = t   \* mutant of MutexTaken: the lock is missing
MutexTaken(t) == config_mutex_ = Unlocked /\ config_mutex_' = t

InputBegin(t, h) == /\ at[t] = "idle" /\ at[Editor] = "idle"
                    /\ Begin(t, h, "lock")
                    /\ UNCHANGED <<src, bak, config_mutex_, cut, history, crashes>>

InputLock(t) == /\ at[t] = "lock"
                /\ MutexTaken(t)
                /\ GoOn(t, "look")
                /\ UNCHANGED <<src, bak, host, cut, history, bounded>>

InputReturns(t) == /\ at[t] = "look"
                   /\ src # NoFile => SkvLines(src) # {}
                   /\ config_mutex_' = Unlocked
                   /\ GoOn(t, "idle")
                   /\ UNCHANGED <<src, bak, host, cut, history, bounded>>

InputLook(t) == /\ at[t] = "look"
                /\ src # NoFile /\ SkvLines(src) = {}
                /\ GoOn(t, "input")
                /\ UNCHANGED <<src, bak, config_mutex_, host, cut, history, bounded>>

InputAppend(t) == /\ at[t] = "input"
                  /\ src' = src \o SkvLine(host[t]) \o <<Newline>>
                  /\ config_mutex_' = Unlocked
                  /\ GoOn(t, "idle")
                  /\ UNCHANGED <<bak, host, cut, history, bounded>>

(* The file cannot be opened, for reading or for appending, or not be      *)
(* written: only the last goes unnoticed, and each leaves it as it is.     *)
InputFails(t) == /\ at[t] \in {"look", "input"}
                 /\ config_mutex_' = Unlocked
                 /\ GoOn(t, "idle")
                 /\ UNCHANGED <<src, bak, host, cut, history, bounded>>

------------------------------------------------------------------------------
(* deal_skv_config                                                         *)

(* The scan for the last line starts two characters before the end, stops  *)
(* after a newline, and takes the beginning of the file for the beginning  *)
(* of the line whatever stands there.  It fails in a file of less than two *)
(* characters, which counts as an empty last line of an empty file.        *)
ScanFromEnd(file) == Max({0} \cup {k \in 2..(Len(file) - 1) : file[k] = Newline})

LastLine(file) == IF Len(file) < 2 THEN <<>> ELSE LineAt(file, ScanFromEnd(file))

FileLen(file) == IF Len(file) < 2 THEN 0 ELSE Len(file) - 1

CutTooFar(file) == Max({FileLen(file) - Len(LastLine(file)) - 1, 0})   \* mutant of CutAt: counts the newline twice
CutAt(file) == FileLen(file) - Len(LastLine(file))   \* -1 for a single line without a newline

(* A call that cannot open config.ini returns and has changed nothing: it  *)
(* is no action.                                                           *)
EditBegin(h, first) == /\ \A t \in All : at[t] = "idle"
                       /\ src # NoFile
                       /\ Begin(Editor, h, first)
                       /\ opened' = src

(* What stands between the first equals sign of the line and the second,   *)
(* or the end, is the host.                                                *)
Names(line, h) == \E k \in 1..Len(line) :
  /\ SubSeq(line, k, Len(line)) = SkvLine(h)
  /\ \A j \in 1..(k - 1) : line[j] \notin {Key, DataDir, NewDataDir}

DealReturns(h) == /\ EditBegin(h, "idle")
                  /\ Names(LastLine(src), h)
                  /\ failed' = FALSE
                  /\ UNCHANGED <<src, bak, config_mutex_, cut, whole, crashes>>

DealBegin(h) == /\ EditBegin(h, "truncate")
                /\ ~Names(LastLine(src), h)
                /\ cut' = CutAt(src)
                /\ failed' = FALSE
                /\ UNCHANGED <<src, bak, config_mutex_, whole, crashes>>

DealTruncate == /\ at[Editor] = "truncate"
                /\ cut >= 0
                /\ src' = SubSeq(src, 1, cut)
                /\ GoOn(Editor, "append")
                /\ UNCHANGED <<bak, config_mutex_, host, cut, history, bounded>>

(* It does so whenever the length is negative.                             *)
DealTruncateFails == /\ at[Editor] = "truncate"
                     /\ failed' = TRUE
                     /\ GoOn(Editor, "append")
                     /\ UNCHANGED <<src, bak, config_mutex_, host, cut, opened, whole, bounded>>

DealAppend == /\ at[Editor] = "append"
              /\ src' = src \o SkvLine(host[Editor]) \o <<Newline>>
              /\ GoOn(Editor, "idle")
              /\ UNCHANGED <<bak, config_mutex_, host, cut, history, bounded>>

(* The file cannot be opened again, or not be written: the last line is    *)
(* gone already.                                                           *)
DealAppendFails == /\ at[Editor] = "append"
                   /\ GoOn(Editor, "idle")
                   /\ UNCHANGED <<src, bak, config_mutex_, host, cut, history, bounded>>

------------------------------------------------------------------------------
(* replace_skv_config, and deal_config_ini, which copies in the same way   *)
(* but also changes data_dir and leaves the copy in the backup file        *)

Holds(line, letter) == \E k \in 1..Len(line) : line[k] = letter

After(file, n) == n + Len(LineAt(file, n)) + 1   \* where the next line begins

OldKeptToo(file, n) == After(file, n)   \* mutant of BehindClusters: the old line is copied after the new one
BehindClusters(file, n) == After(file, After(file, n))

(* What the loop writes for the lines of a file: the one after the         *)
(* clusters' header is read and dropped, and a newline follows each line   *)
(* but the last.                                                           *)
CopyOf(file, h, withDataDir) ==
  LET AtEnd(n) == After(file, n) > Len(file)
      Copy[n \in 0..(Len(file) + 1)] ==
        CASE n > Len(file) -> <<>>
          [] n <= Len(file) /\ Holds(LineAt(file, n), Clusters) ->
               LineAt(file, n) \o <<Newline>> \o SkvLine(h) \o <<Newline>>
               \o (IF AtEnd(n) THEN <<>> ELSE Copy[BehindClusters(file, n)])
          [] OTHER ->
               (IF withDataDir /\ Holds(LineAt(file, n), DataDir) THEN <<NewDataDir, Newline>>
                ELSE LineAt(file, n) \o (IF AtEnd(n) THEN <<>> ELSE <<Newline>>))
               \o Copy[After(file, n)]
  IN  Copy[0]

OpenedToAppend(file) == IF file = NoFile THEN <<>> ELSE file

(* What has been written of a text when the writing fails: once a stream   *)
(* has failed it writes no more.                                           *)
BeginningsOf(text) == {SubSeq(text, 1, n) : n \in LineStarts(text) \ {Len(text)}}

ReplaceBegin(h) == /\ EditBegin(h, "copy")
                   /\ bak' = OpenedToAppend(bak)
                   /\ failed' = FALSE
                   /\ UNCHANGED <<src, config_mutex_, cut, whole, crashes>>

(* config_bak.ini cannot be opened: all the loop writes is lost, and       *)
(* config.ini is removed as if it were copied.                             *)
ReplaceBeginFails(h) == /\ EditBegin(h, "remove")
                        /\ failed' = TRUE
                        /\ UNCHANGED <<src, bak, config_mutex_, cut, whole, crashes>>

ReplaceCopy == /\ at[Editor] = "copy"
               /\ bak' = bak \o CopyOf(src, host[Editor], FALSE)
               /\ GoOn(Editor, "remove")
               /\ UNCHANGED <<src, config_mutex_, host, cut, history, bounded>>

ReplaceCopyFails == /\ at[Editor] = "copy"
                    /\ \E written \in BeginningsOf(CopyOf(src, host[Editor], FALSE)) :
                         bak' = bak \o written
                    /\ failed' = TRUE
                    /\ GoOn(Editor, "remove")
                    /\ UNCHANGED <<src, config_mutex_, host, cut, opened, whole, bounded>>

RemovedBeforeCopied ==   \* mutant of ReplaceRemove: config.ini is removed before it is copied
  /\ at[Editor] = "copy"
  /\ src' = NoFile
  /\ GoOn(Editor, "rename")
  /\ UNCHANGED <<bak, config_mutex_, host, cut, history, bounded>>

ReplaceRemove == /\ at[Editor] = "remove"
                 /\ src' = NoFile
                 /\ GoOn(Editor, "rename")
                 /\ UNCHANGED <<bak, config_mutex_, host, cut, history, bounded>>

ReplaceRemoveFails == /\ at[Editor] = "remove"
                      /\ GoOn(Editor, "rename")
                      /\ UNCHANGED <<src, bak, config_mutex_, host, cut, history, bounded>>

CopiedBack ==   \* mutant of ReplaceRename: the backup file is copied, not renamed
  /\ at[Editor] = "rename"
  /\ bak # NoFile
  /\ src' = bak
  /\ GoOn(Editor, "idle")
  /\ UNCHANGED <<bak, config_mutex_, host, cut, history, bounded>>

ReplaceRename == /\ at[Editor] = "rename"
                 /\ bak # NoFile
                 /\ src' = bak
                 /\ bak' = NoFile
                 /\ GoOn(Editor, "idle")
                 /\ UNCHANGED <<config_mutex_, host, cut, history, bounded>>

(* It does so whenever there is no backup file.                            *)
ReplaceRenameFails == /\ at[Editor] = "rename"
                      /\ whole' = (whole /\ bak = NoFile)
                      /\ GoOn(Editor, "idle")
                      /\ UNCHANGED <<src, bak, config_mutex_, host, cut, opened, failed, bounded>>

DealIni(h) == /\ EditBegin(h, "ini")
              /\ bak' = OpenedToAppend(bak)
              /\ failed' = FALSE
              /\ UNCHANGED <<src, config_mutex_, cut, whole, crashes>>

DealIniFails(h) == /\ EditBegin(h, "idle")
                   /\ failed' = TRUE
                   /\ UNCHANGED <<src, bak, config_mutex_, cut, whole, crashes>>

DealIniCopy == /\ at[Editor] = "ini"
               /\ bak' = bak \o CopyOf(src, host[Editor], TRUE)
               /\ whole' = FALSE
               /\ GoOn(Editor, "idle")
               /\ UNCHANGED <<src, config_mutex_, host, cut, opened, failed, bounded>>

DealIniCopyFails == /\ at[Editor] = "ini"
                    /\ \E written \in BeginningsOf(CopyOf(src, host[Editor], TRUE)) :
                         bak' = bak \o written
                    /\ whole' = FALSE
                    /\ failed' = TRUE
                    /\ GoOn(Editor, "idle")
                    /\ UNCHANGED <<src, config_mutex_, host, cut, opened, bounded>>

------------------------------------------------------------------------------

(* The process dies and is started again: the files stay as they are.      *)
Crash == /\ crashes < MaxCrashes
         /\ \E t \in All : at[t] # "idle"
         /\ crashes' = crashes + 1
         /\ whole' = (whole /\ at[Editor] \notin {"copy", "remove", "rename", "ini"})
         /\ at' = [t \in All |-> "idle"]
         /\ config_mutex_' = Unlocked
         /\ UNCHANGED <<src, bak, host, cut, opened, failed, edits>>

CfgNext == \/ \E h \in Hosts : \/ \E t \in Threads : InputBegin(t, h)
                               \/ DealReturns(h) \/ DealBegin(h)
                               \/ ReplaceBegin(h) \/ ReplaceBeginFails(h)
                               \/ DealIni(h) \/ DealIniFails(h)
           \/ \E t \in Threads : InputLock(t) \/ InputReturns(t) \/ InputLook(t) \/ InputAppend(t)
                               \/ InputFails(t)
           \/ DealTruncate \/ DealTruncateFails \/ DealAppend \/ DealAppendFails
           \/ ReplaceCopy \/ ReplaceRemove \/ ReplaceRename
           \/ ReplaceCopyFails \/ ReplaceRemoveFails \/ ReplaceRenameFails
           \/ DealIniCopy \/ DealIniCopyFails
           \/ Crash

CfgSpec == CfgInit /\ [][CfgNext]_cfgVars
------------------------------------------------------------------------------

(* Nothing input_skv_config adds was there already, whichever threads race *)
(* to add it; and in a file whose last line is complete the next call      *)
(* finds what this one added, unless this one failed to.                   *)
InputOnce == [][\A t \in Threads : InputAppend(t) =>
                  /\ SkvLines(src) = {}
                  /\ Len(src) = 0 \/ Last(src) = Newline => SkvLines(src') # {}]_cfgVars

LinesBeforeLast(file) == SubSeq(file, 1, Max(LineStarts(Front(file))))

(* When config.ini is gone, for a moment, because of a crash or because a  *)
(* rename failed, the backup file ends with a complete copy of it, unless  *)
(* that copy could not be opened or not be written in full, of which the   *)
(* code takes no notice: nothing else that fails loses the contents.       *)
KeptSomewhere == src = NoFile =>
  \/ failed
  \/ bak # NoFile /\ IsSuffix(CopyOf(opened, host[Editor], FALSE), bak)

(* deal_skv_config replaces exactly the last line, if that is complete and *)
(* the file does not begin with an empty line: the scan takes the start of *)
(* a file for that of its last line, and cuts a newline it only assumes.   *)
(* replace_skv_config leaves a copy of what it found and nothing else, as  *)
(* long as no crash, failed rename or deal_config_ini has left a backup    *)
(* file, to which it would append; and to replace the host by itself would *)
(* change nothing: no line but the old host's is dropped, and no newline is*)
(* gained or lost at the end.  Each unless the file could not be truncated,*)
(* or the copy not be opened or written, which the code does not notice.   *)
DealtExactly ==
  /\ ~failed
  /\ opened # <<>> /\ Last(opened) = Newline /\ Head(opened) # Newline
  => src' = LinesBeforeLast(opened) \o SkvLine(host[Editor]) \o <<Newline>>

ReplacedExactly ==
  whole /\ ~failed => /\ src' = CopyOf(opened, host[Editor], FALSE)
                      /\ CopyOf(src', host[Editor], FALSE) = src'

EditsExact == [][/\ DealAppend => DealtExactly
                 /\ ReplaceRename => ReplacedExactly]_cfgVars
==============================================================================
