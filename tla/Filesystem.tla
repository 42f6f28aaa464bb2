----------------------------- MODULE Filesystem -----------------------------
(***************************************************************************)
(* The POSIX file layer over FileX (platform/runtime/libc/filesystem.cpp): *)
(* the descriptor table, the working directory, and the operations that    *)
(* open, move and remove files.                                            *)
(*                                                                         *)
(* Every operation holds registry_mutex from its first check to its return *)
(* and is one action, except _rename: it is the only one that changes the  *)
(* media several times, and each of those changes is an action of its own. *)
(* FileX is external and modelled by how the code uses it: entries is what *)
(* is on the media, handles the FX_FILE inside each descriptor.  FileX     *)
(* lets a file be open either for reading by many or for writing by one,   *)
(* and with Faults every call of it may fail.                              *)
(***************************************************************************)
EXTENDS Integers, FilePaths, FiniteSetsExt

CONSTANTS
  Files,          \* indices of the descriptor table, MAXIMUM_OPEN_FILES of them
  Objects,        \* files and directories the media have room for: 1 .. n
  MaximumPath,    \* MAXIMUM_PATH, in components
  Mounted,        \* the volumes storage::initialize mounted
  Requests,       \* paths callers pass
  OpenFlags,      \* flags callers pass to _open
  Lengths,        \* lengths callers pass to _read, _write and _ftruncate
  Offsets,        \* offsets callers pass to _lseek
  MaximumOffset,  \* the largest off_t
  MaximumSize,    \* the size at which the media are full
  BackupNames,    \* how many names FXRnnnnn.TMP there are
  BackupAttempts, \* how many of them one _rename tries
  Faults          \* whether FileX calls may fail with an I/O error

Volumes == {"flash", "sd"}

ASSUME FilesystemAssumption ==
  /\ Files # {} /\ Files \subseteq Nat \ {0}
  /\ Objects \subseteq Nat \ {0}
  /\ Mounted \subseteq Volumes /\ Mounted # {}
  /\ MaximumPath \in Nat /\ MaximumOffset \in Nat /\ MaximumSize \in Nat
  /\ \A request \in Requests : IsSequence(request.parts)
  /\ Lengths \subseteq Nat /\ Offsets \subseteq Int
  /\ BackupNames \in Nat \ {0} /\ BackupAttempts \in 1 .. BackupNames
  /\ Faults \in BOOLEAN

VARIABLES
  entries,     \* the media: what each object is and where it is
  handles,     \* FileX's side of each descriptor, the member file
  descriptors, \* the rest of each FileDescriptor
  current_directory,
  rename_backup_sequence,
  rename,      \* the locals of the _rename that holds the mutex
  result       \* what the last finished call returned

fsVars == <<handles, descriptors, current_directory>>
vars == <<entries, fsVars, rename_backup_sequence, rename, result>>

----------------------------------------------------------------------------
(* The media. *)

NoObject == 0
RootOf(volume) == IF volume = "flash" THEN -1 ELSE -2
NoName == <<"", 0>>

Free == [kind |-> "free", parent |-> NoObject, name |-> NoName, data |-> <<>>,
         stale |-> FALSE]

Live(o) == entries[o].kind # "free"
IsDirectory(o) == o < 0 \/ (o > 0 /\ entries[o].kind = "dir")

\* The entry of a directory that has the name of component, in any spelling.
ChildIn(media, parent, component) ==
  LET found == {o \in Objects : /\ media[o].kind # "free"
                                /\ media[o].parent = parent
                                /\ fold_ascii_case(media[o].name)
                                     = fold_ascii_case(component)}
  IN  IF found = {} THEN NoObject ELSE Min(found)

\* The object at a normalized path below a mount, or the mount's root.
ObjectIn(media, path) ==
  LET walk[i \in DOMAIN path] ==
        IF i = 1 THEN RootOf(fold_ascii_case(path[1]))
                 ELSE ChildIn(media, walk[i - 1], path[i])
  IN  walk[Len(path)]

ObjectAt(path) == ObjectIn(entries, path)

NormalizedPath(request) == normalize_path(current_directory, MaximumPath, request)

virtual_root(path) == path = <<>>
mount_root(path) == Len(path) = 1
Media(path) == fold_ascii_case(path[1])

resolve_normalized_path(path) ==
  IF virtual_root(path) THEN OK
  ELSE IF Media(path) \notin Volumes THEN "ENOENT"
  ELSE IF Media(path) \notin Mounted THEN "ENODEV"
  ELSE OK

\* resolve_path, from the normalization every call begins with.
resolve_path(normalized) ==
  FirstError(normalized.error, resolve_normalized_path(normalized.path))

\* information_unlocked on a normalized path: its error, and the attribute
\* FX_DIRECTORY when there is none.
information_error(path) ==
  FirstError(resolve_normalized_path(path),
             IF virtual_root(path) \/ ObjectAt(path) # NoObject THEN OK ELSE "ENOENT")

IsDirectoryPath(path) == virtual_root(path) \/ IsDirectory(ObjectAt(path))

\* What a FileX call that has nothing to object to may return.
Io == IF Faults THEN {OK, "EIO"} ELSE {OK}

----------------------------------------------------------------------------
(* Open files. *)

Closed == "closed"
NoHandle == [mode |-> Closed, object |-> NoObject, offset |-> 0, modified |-> FALSE]

\* object is history: the file the descriptor was opened on.
NoDescriptor ==
  [allocated |-> FALSE, readable |-> FALSE, writable |-> FALSE, append |-> FALSE,
   path |-> <<>>, position |-> 0, open_mode |-> Closed, object |-> NoObject]

\* An object no entry, descriptor or handle refers to.
Unused ==
  {o \in Objects : ~Live(o) /\ \A d \in Files : descriptors[d].object # o}

\* The first slot of the table that is not allocated.
FreeSlots == {d \in Files : ~descriptors[d].allocated}

\* fx_file_open refuses a writer next to others and a reader next to a writer.
Conflict(d, o, mode) ==
  \E x \in Files \ {d} : /\ handles[x].object = o
                         /\ mode = "write" \/ handles[x].mode = "write"

\* fx_file_open of the object at path: why it fails.
OpenError(media, d, path, mode) ==
  LET o == ObjectIn(media, path)
  IN  IF o \notin Objects THEN "ENOENT"
      ELSE IF media[o].kind = "dir" THEN "EISDIR"
      ELSE IF media[o].stale THEN "EIO"
      ELSE IF Conflict(d, o, mode) THEN "EACCES"
      ELSE OK

\* fx_file_extended_seek stops at the end of the file.
SeekTo(handle, position, size) == [handle EXCEPT !.offset = Min({position, size})]

Outcome(handle, descriptor, error) ==
  [handle |-> handle, descriptor |-> descriptor, error |-> error]

\* Opening the file by its path in another mode, once no handle is open.
Reopen(media, d, descriptor, mode) ==
  LET o == ObjectIn(media, descriptor.path)
      opened == [NoHandle EXCEPT !.mode = mode, !.object = o]
      now_open == [descriptor EXCEPT !.open_mode = mode]
      refused == OpenError(media, d, descriptor.path, mode)
  IN  IF refused # OK THEN {Outcome(NoHandle, descriptor, refused)}
      ELSE {Outcome(NoHandle, descriptor, e) : e \in Io \ {OK}}
           \cup {Outcome(opened, now_open, e) : e \in Io \ {OK}}
           \cup {Outcome(SeekTo(opened, descriptor.position, Len(media[o].data)),
                         now_open, OK)}

\* The outcomes of switch_mode.
switch_mode(d, mode) ==
  LET descriptor == descriptors[d]
      handle == handles[d]
      detached == [descriptor EXCEPT !.position = handle.offset, !.open_mode = Closed]
  IN  IF descriptor.open_mode = mode THEN {Outcome(handle, descriptor, OK)}
      ELSE IF descriptor.open_mode = Closed THEN Reopen(entries, d, descriptor, mode)
      ELSE {Outcome(NoHandle, detached, e) : e \in Io \ {OK}}
           \cup Reopen(entries, d, detached, mode)

Returned(error) == IF error = OK THEN "ok" ELSE "error"

\* A call that fails before it changes anything.
Refuse == result' = "error" /\ UNCHANGED <<entries, fsVars, rename_backup_sequence, rename>>

\* registry_mutex is free: no _rename is between two of its steps.
Idle == [step |-> "idle", old |-> <<>>, new |-> <<>>, backup |-> <<>>,
         source |-> NoObject, destination |-> NoObject]
Available == rename.step = "idle"

----------------------------------------------------------------------------
(* Opening and closing. *)

CreateError(path) ==
  IF ~IsDirectory(ObjectAt(Front(path))) THEN "EINVAL"
  ELSE IF Unused = {} THEN "ENOSPC"
  ELSE OK

Created(kind, path) ==
  [entries EXCEPT ![Min(Unused)] =
     [Free EXCEPT !.kind = kind, !.parent = ObjectAt(Front(path)), !.name = Last(path)]]

OpenRefused(name, flags) ==
  LET path == name.path
      found == information_error(path)
  IN  FirstError(resolve_path(name),
        IF virtual_root(path) \/ mount_root(path) THEN "EISDIR"
        ELSE IF FreeSlots = {} THEN "EMFILE"
        ELSE IF found \notin {OK, "ENOENT"} THEN found
        ELSE IF found = OK /\ IsDirectoryPath(path) THEN "EISDIR"
        ELSE IF found # OK /\ ~flags.create THEN found
        ELSE IF found = OK /\ flags.create /\ flags.excl THEN "EEXIST"
        ELSE IF found # OK THEN CreateError(path)
        ELSE OK)

\* switch_mode on the new descriptor, then fx_file_extended_truncate_release.
OpenOutcomes(media, slot, descriptor, flags) ==
  LET mode == IF descriptor.writable THEN "write" ELSE "read"
      Truncated(r) == Outcome([r.handle EXCEPT !.offset = 0, !.modified = TRUE],
                              [r.descriptor EXCEPT !.position = 0], OK)
      AfterSwitch(r) ==
        IF r.error # OK \/ ~(descriptor.writable /\ flags.trunc) THEN {r}
        ELSE {Truncated(r)} \cup {[r EXCEPT !.error = e] : e \in Io \ {OK}}
  IN  UNION {AfterSwitch(r) : r \in Reopen(media, slot, descriptor, mode)}

\* Mutant: the error path forgets the handle.
CloseOnFailure_Forgets(handle) == handle

\* The error path of _open: what is left of the handle.
CloseOnFailure(handle) == NoHandle

Open(name, flags) ==
  /\ Available
  /\ OpenRefused(name, flags) = OK
  /\ LET path == name.path
         slot == Min(FreeSlots)
         exists == ObjectAt(path) # NoObject
         o == IF exists THEN ObjectAt(path) ELSE Min(Unused)
         media == IF exists THEN entries ELSE Created("file", path)
         fresh == [NoDescriptor EXCEPT
                     !.allocated = TRUE,
                     !.readable = flags.access # "O_WRONLY",
                     !.writable = flags.access # "O_RDONLY",
                     !.append = flags.append,
                     !.path = path,
                     !.position = IF flags.append THEN Len(media[o].data) ELSE 0,
                     !.object = o]
     IN \E r \in OpenOutcomes(media, slot, fresh, flags) :
          /\ IF r.error = OK
               THEN /\ handles' = [handles EXCEPT ![slot] = r.handle]
                    /\ descriptors' = [descriptors EXCEPT ![slot] = r.descriptor]
               ELSE /\ handles' = [handles EXCEPT ![slot] = CloseOnFailure(r.handle)]
                    /\ UNCHANGED descriptors
          /\ entries' = IF r.error = OK /\ r.descriptor.writable /\ flags.trunc
                          THEN [media EXCEPT ![o].data = <<>>]
                          ELSE media
          /\ result' = Returned(r.error)
  /\ UNCHANGED <<current_directory, rename_backup_sequence, rename>>

Close(d) ==
  /\ Available
  /\ descriptors[d].allocated
  /\ handles' = [handles EXCEPT ![d] = NoHandle]
  /\ descriptors' = [descriptors EXCEPT ![d] = NoDescriptor]
  /\ \E e \in (IF descriptors[d].open_mode = Closed THEN {OK} ELSE Io) :
       result' = Returned(e)
  /\ UNCHANGED <<entries, current_directory, rename_backup_sequence, rename>>

----------------------------------------------------------------------------
(* Reading, writing and seeking. *)

\* The step of a call on descriptor d that ends with outcome r.
Finish(d, r) ==
  /\ handles' = [handles EXCEPT ![d] = r.handle]
  /\ descriptors' = [descriptors EXCEPT ![d] = r.descriptor]
  /\ result' = Returned(r.error)
  /\ UNCHANGED <<current_directory, rename_backup_sequence, rename>>

\* The FX_FILE moves to offset and the descriptor takes its position from it.
MovedTo(r, offset, error) ==
  Outcome([r.handle EXCEPT !.offset = offset],
          [r.descriptor EXCEPT !.position = offset], error)

Read(d, length) ==
  /\ Available
  /\ descriptors[d].allocated /\ descriptors[d].readable
  /\ length > 0
  /\ UNCHANGED entries
  /\ \E r \in switch_mode(d, "read") :
       LET size == Len(entries[r.handle.object].data)
           offset == r.handle.offset
       IN  IF r.error # OK THEN Finish(d, r)
           ELSE \E e \in Io :
                  Finish(d, MovedTo(r, IF e = OK THEN Min({offset + length, size})
                                                ELSE offset, e))

\* data with count bytes written at offset; the bytes name their writer.
Overwritten(data, offset, count, byte) ==
  [i \in 1 .. Max({Len(data), offset + count}) |->
     IF i > offset /\ i <= offset + count THEN byte ELSE data[i]]

\* Mutant: the end of the file is sought once, in _open.
AtEnd_InOpenOnly(d, r, size) == {r}

\* An append descriptor goes to the end of the file before each write.
AtEnd(d, r, size) ==
  LET moved == [r EXCEPT !.descriptor.position = size]
  IN  IF ~descriptors[d].append THEN {r}
      ELSE {[moved EXCEPT !.handle.offset = size]}
           \cup {[moved EXCEPT !.error = e] : e \in Io \ {OK}}

\* fx_file_write: no byte when the media are full, some when it fails.
WrittenCounts(offset, length) ==
  IF offset + length > MaximumSize THEN {<<0, "ENOSPC">>}
  ELSE {<<length, OK>>} \cup ((0 .. length - 1) \X (Io \ {OK}))

Write(d, length) ==
  /\ Available
  /\ descriptors[d].allocated /\ descriptors[d].writable
  /\ length > 0
  /\ \E s \in switch_mode(d, "write") :
       IF s.error # OK THEN Finish(d, s) /\ UNCHANGED entries
       ELSE LET o == s.handle.object
            IN  \E r \in AtEnd(d, s, Len(entries[o].data)) :
                  IF r.error # OK THEN Finish(d, r) /\ UNCHANGED entries
                  ELSE \E w \in WrittenCounts(r.handle.offset, length) :
                    /\ entries' = [entries EXCEPT ![o].data =
                                     Overwritten(@, r.handle.offset, w[1], d)]
                    /\ Finish(d, MovedTo([r EXCEPT !.handle.modified = @ \/ w[1] > 0],
                                         r.handle.offset + w[1], w[2]))

\* _lseek opens the file when an earlier call left it closed.
SeekableHandle(d) ==
  IF descriptors[d].open_mode # Closed
    THEN {Outcome(handles[d], descriptors[d], OK)}
    ELSE switch_mode(d, IF descriptors[d].readable THEN "read" ELSE "write")

Lseek(d, offset, origin) ==
  /\ Available
  /\ descriptors[d].allocated
  /\ UNCHANGED entries
  /\ \E r \in SeekableHandle(d) :
       LET size == Len(entries[r.handle.object].data)
           base == CASE origin = "SEEK_SET" -> 0
                     [] origin = "SEEK_CUR" -> r.descriptor.position
                     [] origin = "SEEK_END" -> size
           target == base + offset
       IN  IF r.error # OK THEN Finish(d, r)
           ELSE IF target > MaximumOffset THEN Finish(d, [r EXCEPT !.error = "EOVERFLOW"])
           ELSE IF target < 0 THEN Finish(d, [r EXCEPT !.error = "EINVAL"])
           ELSE \/ Finish(d, Outcome(SeekTo(r.handle, target, size),
                                     [r.descriptor EXCEPT !.position = target], OK))
                \/ \E e \in Io \ {OK} : Finish(d, [r EXCEPT !.error = e])

\* Mutant: the offset stays where the zeroes end.
BackInto_NoSeek(r, length, size) ==
  {[r EXCEPT !.descriptor.position = Min({r.descriptor.position, length})]}

\* The end of _ftruncate: the position comes back into the file.
BackInto(r, length, size) ==
  LET position == Min({r.descriptor.position, length})
      moved == [r EXCEPT !.descriptor.position = position]
  IN  {[moved EXCEPT !.handle = SeekTo(@, position, size)]}
      \cup {[moved EXCEPT !.error = e] : e \in Io \ {OK}}

\* How many zeroes the loop writes; WrittenCounts taken chunk by chunk.
ZeroCounts(size, length) ==
  LET room == Min({length, MaximumSize}) - size
  IN  (IF length <= MaximumSize THEN {<<length - size, OK>>}
                                ELSE (0 .. room) \X {"ENOSPC"})
      \cup ((0 .. room) \X (Io \ {OK}))

Ftruncate(d, length) ==
  /\ Available
  /\ descriptors[d].allocated /\ descriptors[d].writable
  /\ \E s \in switch_mode(d, "write") :
       IF s.error # OK THEN Finish(d, s) /\ UNCHANGED entries
       ELSE LET o == s.handle.object
                size == Len(entries[o].data)
                shrunk == [s EXCEPT !.handle.modified = TRUE,
                                    !.handle.offset = Min({@, length})]
            IN  \/ /\ length <= size
                   /\ entries' = [entries EXCEPT ![o].data = SubSeq(@, 1, length)]
                   /\ \E r \in BackInto(IF length < size THEN shrunk ELSE s, length, length) :
                        Finish(d, r)
                \/ /\ length < size
                   /\ UNCHANGED entries
                   /\ \E e \in Io \ {OK} : Finish(d, [s EXCEPT !.error = e])
                \/ /\ length > size
                   /\ UNCHANGED entries
                   /\ \E e \in Io \ {OK} : Finish(d, [s EXCEPT !.error = e])
                \/ /\ length > size
                   /\ \E z \in ZeroCounts(size, length) :
                        LET grown == [s EXCEPT !.handle.modified = @ \/ z[1] > 0,
                                               !.handle.offset = size + z[1],
                                               !.error = z[2]]
                        IN  /\ entries' = [entries EXCEPT ![o].data =
                                             Overwritten(@, size, z[1], 0)]
                            /\ \E r \in (IF z[2] = OK
                                            THEN BackInto(grown, length, length)
                                            ELSE {grown}) : Finish(d, r)

\* fx_media_flush: no handle on the volume is ahead of its directory entry.
Flushed(volume) ==
  [d \in Files |-> IF handles[d].object # NoObject /\ Media(descriptors[d].path) = volume
                     THEN [handles[d] EXCEPT !.modified = FALSE] ELSE handles[d]]

Fsync(d) ==
  /\ Available
  /\ descriptors[d].allocated
  /\ \E e \in Io : /\ result' = Returned(e)
                   /\ handles' = IF e = OK THEN Flushed(Media(descriptors[d].path))
                                           ELSE handles
  /\ UNCHANGED <<entries, descriptors, current_directory, rename_backup_sequence, rename>>

\* A call on a descriptor that is free or not open for it: EBADF.
BadDescriptor(d) ==
  /\ Available
  /\ ~descriptors[d].allocated \/ ~descriptors[d].readable \/ ~descriptors[d].writable
  /\ Refuse

OpenFails(name, flags) ==
  /\ Available
  /\ OpenRefused(name, flags) # OK
  /\ Refuse

----------------------------------------------------------------------------
(* Names. *)

\* A call that returns error, or changes the media to media.
Attempt(error, media) ==
  \/ error # OK /\ Refuse
  \/ \E e \in Io : /\ error = OK
                   /\ entries' = IF e = OK THEN media ELSE entries
                   /\ result' = Returned(e)
                   /\ UNCHANGED <<fsVars, rename_backup_sequence, rename>>

Deleted(o) == [entries EXCEPT ![o] = Free]

IsOpen(o) == \E d \in Files : handles[d].object = o

Unlink(name) ==
  LET path == name.path
      error == FirstError(resolve_path(name),
               FirstError(information_error(path),
                 IF IsDirectoryPath(path) THEN "EISDIR"
                 ELSE IF IsOpen(ObjectAt(path)) THEN "EACCES"
                 ELSE OK))
  IN  Available /\ Attempt(error, Deleted(ObjectAt(path)))

Mkdir(name) ==
  LET path == name.path
      error == FirstError(resolve_path(name),
                 IF virtual_root(path) \/ mount_root(path) THEN "EEXIST"
                 ELSE IF ObjectAt(path) # NoObject THEN "EEXIST"
                 ELSE CreateError(path))
  IN  Available /\ Attempt(error, Created("dir", path))

IsEmpty(o) == \A x \in Objects : Live(x) => entries[x].parent # o

\* The working directory is at path or below it.
HoldsCurrentDirectory(path) == path_has_prefix(current_directory, path, TRUE)

Rmdir(name) ==
  LET path == name.path
      error == FirstError(resolve_path(name),
               FirstError(information_error(path),
                 IF ~IsDirectoryPath(path) THEN "ENOTDIR"
                 ELSE IF virtual_root(path) \/ mount_root(path) THEN "EBUSY"
                 ELSE IF HoldsCurrentDirectory(path) THEN "EBUSY"
                 ELSE IF ~IsEmpty(ObjectAt(path)) THEN "ENOTEMPTY"
                 ELSE OK))
  IN  Available /\ Attempt(error, Deleted(ObjectAt(path)))

Chdir(name) ==
  LET path == name.path
      error == FirstError(name.error,
               FirstError(information_error(path),
                 IF ~IsDirectoryPath(path) THEN "ENOTDIR" ELSE OK))
  IN  /\ Available
      /\ \/ error # OK /\ Refuse
         \/ /\ error = OK
            /\ current_directory' = path
            /\ result' = "ok"
            /\ UNCHANGED <<entries, handles, descriptors, rename_backup_sequence, rename>>

----------------------------------------------------------------------------
(* _rename. *)

\* Mutant: the spelling counts.
BelowItself_Spelling(old, new) == IsDirectoryPath(old) /\ old # new /\ IsPrefix(old, new)

\* FileX would move a directory below itself and lose the tree.
BelowItself(old, new) ==
  IsDirectoryPath(old) /\ ~paths_equal(old, new) /\ path_has_prefix(new, old, TRUE)

\* A path the adapter keeps would no longer fit.
OutgrowsPath(old, new) ==
  \/ \E d \in Files :
       /\ descriptors[d].allocated
       /\ migrated_path_length(descriptors[d].path, old, new, IsDirectoryPath(old))
            > MaximumPath
  \/ /\ IsDirectoryPath(old)
     /\ migrated_path_length(current_directory, old, new, TRUE) > MaximumPath

\* Mutant: only descriptors whose handle is open count.
HeldByDescriptor_OpenOnly(new) ==
  \E d \in Files : /\ descriptors[d].open_mode # Closed
                   /\ path_has_prefix(descriptors[d].path, new, IsDirectoryPath(new))

\* A descriptor, open or not, would come to name the source.
HeldByDescriptor(new) ==
  \E d \in Files : /\ descriptors[d].allocated
                   /\ path_has_prefix(descriptors[d].path, new, IsDirectoryPath(new))

\* The checks on an existing destination.
DestinationError(old, new) ==
  LET same == paths_equal(old, new)
  IN  IF IsDirectoryPath(old) # IsDirectoryPath(new)
        THEN IF IsDirectoryPath(old) THEN "ENOTDIR" ELSE "EISDIR"
      ELSE IF ~same /\ IsDirectoryPath(old) /\ HoldsCurrentDirectory(new) THEN "EBUSY"
      ELSE IF ~same /\ HeldByDescriptor(new) THEN "EBUSY"
      ELSE IF ~same /\ IsDirectoryPath(new) /\ ~IsEmpty(ObjectAt(new)) THEN "ENOTEMPTY"
      ELSE OK

RenameRefused(old_name, new_name) ==
  LET old == old_name.path
      new == new_name.path
  IN  FirstError(resolve_path(old_name),
      FirstError(resolve_path(new_name),
      FirstError(information_error(old),
        IF Len(old) < 2 \/ Len(new) < 2 THEN "EBUSY"
        ELSE IF Media(old) # Media(new) THEN "EXDEV"
        ELSE IF BelowItself(old, new) THEN "EINVAL"
        ELSE IF OutgrowsPath(old, new) THEN "ENAMETOOLONG"
        ELSE IF old # new /\ information_error(new) = OK THEN DestinationError(old, new)
        ELSE OK)))

\* Mutant: the media are never flushed.
SourceIsOpen_Ignored(old) == FALSE

\* Whether the media are flushed before the source moves.
SourceIsOpen(old) ==
  \E d \in Files : /\ descriptors[d].allocated /\ descriptors[d].open_mode # Closed
                   /\ path_has_prefix(descriptors[d].path, old, IsDirectoryPath(old))

RenameStart(old, new) ==
  LET replaced == IF paths_equal(old, new) THEN NoObject ELSE ObjectAt(new)
  IN  [Idle EXCEPT !.step = IF replaced = NoObject THEN "move" ELSE "backup",
                   !.old = old, !.new = new,
                   !.source = ObjectAt(old), !.destination = replaced]

Rename(old_name, new_name) ==
  LET old == old_name.path
      new == new_name.path
      refused == RenameRefused(old_name, new_name)
  IN  /\ Available
      /\ \/ refused # OK /\ Refuse
         \/ /\ refused = OK /\ old = new
            /\ result' = "ok"
            /\ UNCHANGED <<entries, fsVars, rename_backup_sequence, rename>>
         \/ /\ refused = OK /\ old # new /\ SourceIsOpen(old) /\ Faults
            /\ Refuse
         \/ /\ refused = OK /\ old # new
            /\ handles' = IF SourceIsOpen(old) THEN Flushed(Media(old)) ELSE handles
            /\ rename' = RenameStart(old, new)
            /\ UNCHANGED <<entries, descriptors, current_directory,
                           rename_backup_sequence, result>>

\* fx_file_rename and fx_directory_rename.  The directory entry is copied as it is
\* on the media: a handle that is ahead of it leaves it stale.
MoveError(from, to) ==
  LET o == ObjectAt(from)
  IN  IF ~IsDirectory(ObjectAt(Front(to))) THEN "EINVAL"
      ELSE IF ObjectAt(to) \notin {NoObject, o} THEN "EEXIST"
      ELSE OK

Moved(from, to) ==
  LET o == ObjectAt(from)
  IN  [entries EXCEPT ![o].parent = ObjectAt(Front(to)), ![o].name = Last(to),
                      ![o].stale = @ \/ \E d \in Files : handles[d].object = o
                                                        /\ handles[d].modified]

EndRename(error) == rename' = Idle /\ result' = Returned(error)

BackupPath(k) == <<rename.new[1], <<ToString(k), 0>>>>

\* find_rename_backup_unlocked: the candidates still free among those tried.
FreeCandidates ==
  {t \in 0 .. BackupAttempts - 1 :
     ObjectAt(BackupPath((rename_backup_sequence + t) % BackupNames)) = NoObject}

RenameBackup ==
  /\ rename.step = "backup"
  /\ UNCHANGED fsVars
  /\ \/ /\ FreeCandidates = {}
        /\ rename_backup_sequence' = (rename_backup_sequence + BackupAttempts) % BackupNames
        /\ EndRename("ENOSPC")
        /\ UNCHANGED entries
     \/ /\ FreeCandidates # {}
        /\ LET k == rename_backup_sequence + Min(FreeCandidates)
               backup == BackupPath(k % BackupNames)
           IN  /\ rename_backup_sequence' = (k + 1) % BackupNames
               /\ \/ /\ entries' = Moved(rename.new, backup)
                     /\ rename' = [rename EXCEPT !.step = "move", !.backup = backup]
                     /\ UNCHANGED result
                  \/ /\ Faults
                     /\ EndRename("EIO")
                     /\ UNCHANGED entries

\* The paths of descriptors and of the working directory follow the source.
MigratePaths ==
  LET directory == entries[rename.source].kind = "dir"
  IN  /\ descriptors' = [d \in Files |->
           IF descriptors[d].allocated
             THEN [descriptors[d] EXCEPT !.path =
                     migrate_path(@, rename.old, rename.new, directory)]
             ELSE descriptors[d]]
      /\ current_directory' =
           IF directory THEN migrate_path(current_directory, rename.old, rename.new, TRUE)
                        ELSE current_directory

RenameMove ==
  /\ rename.step = "move"
  /\ UNCHANGED <<handles, rename_backup_sequence>>
  /\ \/ /\ MoveError(rename.old, rename.new) = OK
        /\ entries' = Moved(rename.old, rename.new)
        /\ IF rename.destination # NoObject
             THEN /\ rename' = [rename EXCEPT !.step = "delete"]
                  /\ UNCHANGED <<descriptors, current_directory, result>>
             ELSE MigratePaths /\ EndRename(OK)
     \/ /\ MoveError(rename.old, rename.new) # OK \/ Faults
        /\ IF rename.destination # NoObject
             THEN rename' = [rename EXCEPT !.step = "restore"] /\ UNCHANGED result
             ELSE EndRename("EIO")
        /\ UNCHANGED <<entries, descriptors, current_directory>>

\* Mutant: the backup is discarded although the move failed.
RenameRestore_Discards ==
  /\ rename.step = "restore"
  /\ EndRename("EIO")
  /\ entries' = Deleted(ObjectAt(rename.backup))
  /\ UNCHANGED <<fsVars, rename_backup_sequence>>

RenameRestore ==
  /\ rename.step = "restore"
  /\ EndRename("EIO")
  /\ \/ entries' = Moved(rename.backup, rename.new)
     \/ Faults /\ UNCHANGED entries
  /\ UNCHANGED <<fsVars, rename_backup_sequence>>

RenameDelete ==
  /\ rename.step = "delete"
  /\ MigratePaths
  /\ \/ entries' = Deleted(ObjectAt(rename.backup)) /\ EndRename(OK)
     \/ Faults /\ UNCHANGED entries /\ EndRename("EIO")
  /\ UNCHANGED <<handles, rename_backup_sequence>>

----------------------------------------------------------------------------

\* After runtime_filex_initialize, on empty volumes.
Init ==
  /\ entries = [o \in Objects |-> Free]
  /\ handles = [d \in Files |-> NoHandle]
  /\ descriptors = [d \in Files |-> NoDescriptor]
  /\ current_directory = << <<IF "flash" \in Mounted THEN "flash" ELSE "sd", 0>> >>
  /\ rename_backup_sequence = 0
  /\ rename = Idle
  /\ result = "ok"

DescriptorCall ==
  \E d \in Files :
    \/ Close(d) \/ Fsync(d) \/ BadDescriptor(d)
    \/ \E length \in Lengths : Read(d, length) \/ Write(d, length) \/ Ftruncate(d, length)
    \/ \E offset \in Offsets, origin \in {"SEEK_SET", "SEEK_CUR", "SEEK_END"} :
         Lseek(d, offset, origin)

\* Every call normalizes its paths first.
PathCall ==
  LET normalized == {NormalizedPath(request) : request \in Requests}
  IN  \E path \in normalized :
        \/ \E flags \in OpenFlags : Open(path, flags) \/ OpenFails(path, flags)
        \/ Unlink(path) \/ Mkdir(path) \/ Rmdir(path) \/ Chdir(path)
        \/ \E new_path \in normalized : Rename(path, new_path)

Next ==
  DescriptorCall \/ PathCall
  \/ RenameBackup \/ RenameMove \/ RenameRestore \/ RenameDelete

Spec == Init /\ [][Next]_vars

----------------------------------------------------------------------------

\* Every file and directory stays reachable from the root of a volume: no sequence of
\* renames closes a cycle or leaves an entry below something that is no directory, and
\* none leaves current_directory naming nothing.
TreeStaysWhole ==
  LET live == {o \in Objects : Live(o)}
  IN  /\ Available => virtual_root(current_directory) \/ IsDirectory(ObjectAt(current_directory))
      /\ \A o \in live : IsDirectory(entries[o].parent)
      /\ \A S \in SUBSET live : S # {} => \E o \in S : entries[o].parent \notin S

\* A descriptor names the file it was opened on for as long as that file exists, and
\* its handle is on no other: renaming the file, a directory above it or something
\* else onto it retargets no descriptor, not even one whose handle is closed because
\* switch_mode could not reopen it.  Only _unlink takes the file away.
DescriptorKeepsFile ==
  Available =>
    \A d \in Files :
      descriptors[d].allocated /\ Live(descriptors[d].object) =>
        /\ ObjectAt(descriptors[d].path) = descriptors[d].object
        /\ handles[d].object \in {NoObject, descriptors[d].object}

\* When _rename returns, whichever of its FileX calls failed: after success the source
\* is the only thing left; after an error the source is under its old or new name and
\* a file it was to replace is under its name or a backup name.
RenameLosesNothing ==
  [][rename.step # "idle" /\ rename'.step = "idle" =>
       LET src == rename.source
           dst == rename.destination
           At(path) == ObjectIn(entries', path)
       IN  IF result' = "ok"
             THEN /\ At(rename.new) = src
                  /\ paths_equal(rename.old, rename.new) \/ At(rename.old) = NoObject
                  /\ dst # NoObject => entries'[dst].kind = "free"
             ELSE /\ src \in {At(rename.old), At(rename.new)}
                  /\ dst = NoObject \/ At(rename.new) = dst
                       \/ (rename.backup # <<>> /\ At(rename.backup) = dst)]_vars

\* No directory entry is moved while a handle holds a newer size of the file, which a
\* later switch_mode would meet as FX_FILE_CORRUPT.
NoStaleEntry == \A o \in Objects : ~entries[o].stale

\* What the adapter believes of its handles is what FileX has: no path through _open,
\* switch_mode or _close forgets an open FX_FILE, which would lock the file for good,
\* or uses a closed one, and no handle is open in a mode the flags do not allow.
HandlesAreTracked ==
  \A d \in Files :
    /\ handles[d].mode = descriptors[d].open_mode
    /\ handles[d].mode = "read" => descriptors[d].readable
    /\ handles[d].mode = "write" => descriptors[d].writable

\* FileX stands where the descriptor says, or at the end of a shorter file.
OffsetAgrees(d) ==
  handles[d].mode # Closed =>
    handles[d].offset = Min({descriptors[d].position, Len(entries[handles[d].object].data)})

\* No call that succeeds moves FileX's offset away from the descriptor's position: mode
\* switches, truncation and appending keep the two together.  Only a call that reports
\* an error may part them.
SuccessKeepsOffset ==
  [][\A d \in Files : OffsetAgrees(d) /\ ~OffsetAgrees(d)' => result' = "error"]_vars

\* A descriptor opened with O_APPEND never changes a byte that was there before, wherever
\* it was sought to and whoever wrote in between.
AppendNeverOverwrites ==
  [][\A o \in Objects : \A i \in DOMAIN entries[o].data \cap DOMAIN entries'[o].data :
       LET byte == entries'[o].data[i]
       IN  byte # entries[o].data[i] => byte # 0 /\ ~descriptors[byte].append]_vars

----------------------------------------------------------------------------
(* The inductive invariant of the descriptor table *)

\* Records with the fields of NoHandle, NoDescriptor and Free, whatever is in them.
IsHandle(h) ==
  h = [mode |-> h.mode, object |-> h.object, offset |-> h.offset, modified |-> h.modified]

IsDescriptor(x) ==
  x = [allocated |-> x.allocated, readable |-> x.readable, writable |-> x.writable,
       append |-> x.append, path |-> x.path, position |-> x.position,
       open_mode |-> x.open_mode, object |-> x.object]

IsEntry(e) ==
  e = [kind |-> e.kind, parent |-> e.parent, name |-> e.name, data |-> e.data,
       stale |-> e.stale]

\* Positions and offsets are numbers, and an open handle is on an object of the media.
HandleOK(h) ==
  /\ IsHandle(h) /\ h.offset \in Nat
  /\ h.mode \in {Closed, "read", "write"}
  /\ h.mode # Closed => h.object \in Objects

DescriptorOK(x) == IsDescriptor(x) /\ x.position \in Nat

EntryOK(e) == IsEntry(e) /\ IsSequence(e.data)

MediaOK(media) == DOMAIN media = Objects /\ \A o \in Objects : EntryOK(media[o])

TableInv ==
  /\ DOMAIN handles = Files /\ DOMAIN descriptors = Files
  /\ \A d \in Files :
       /\ HandleOK(handles[d]) /\ DescriptorOK(descriptors[d])
       /\ descriptors[d].allocated \/ descriptors[d].open_mode = Closed
       /\ descriptors[d].allocated => descriptors[d].readable \/ descriptors[d].writable

FileInv == MediaOK(entries) /\ TableInv /\ HandlesAreTracked
=============================================================================
