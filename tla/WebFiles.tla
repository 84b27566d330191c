------------------------------- MODULE WebFiles -------------------------------
(***************************************************************************)
(* The file cache of a web folder and the watcher that keeps it up to date *)
(* (filewatcherevent.hh, httpfilewatcher.hh, iotfilemapping.cc): folders   *)
(* are watched with inotify, and a batch of notifications makes the        *)
(* watcher empty the cache and read every file again.  The pause of the    *)
(* other threads, which it asks for first, may be refused (WorkerPool says *)
(* when).                                                                  *)
(*                                                                         *)
(* There is one web folder with at most one file in each of its folders,   *)
(* and one more name for one of the files (a folder mapping).              *)
(***************************************************************************)
EXTENDS Integers, FiniteSets, SequencesExt

CONSTANTS
    Folders,    (* paths, as sequences of characters                        *)
    Root,       (* the web folder                                           *)
    Dest,       (* the folder of the file with a second name                *)
    Inodes,     (* BOUND: the folders that ever are on the disk: 1 .. n     *)
    MaxVersion  (* BOUND: changes on the disk                               *)

ASSUME FoldersAssumption == Folders \subseteq Seq(STRING) /\ Root \in Folders /\ Dest \in Folders
                            /\ \A f \in Folders : f = Root \/ IsPrefix(Root \o <<"/">>, f)
ASSUME InodesAssumption == /\ MaxVersion \in Nat
                           /\ IsFiniteSet(Inodes) /\ 1 \in Inodes /\ Inodes = 1 .. Cardinality(Inodes)

VARIABLES
    dir,        (* the inode at each path, or None                          *)
    file,       (* the content of the file in each inode, or None           *)
    version,    (* the number of changes so far; a content is its number    *)
    open,       (* the inodes whose file is open for writing                *)
    used,       (* the last inode that was used                             *)
    watched,    (* the inodes inotify watches                               *)
    gen,        (* how often the watch of each inode was removed            *)
    events,     (* the notifications nobody has read                        *)
    edge,       (* epoll has one for the watcher                            *)
    folderlist, foldermap,  (* of the watcher                               *)
    watcher,    (* where it is: "idle", "read", "flush", "scan", "remove"   *)
    watchfolder_list,       (* how many folders it has still to finalize    *)
    remove_folders,         (* the watches it will remove                   *)
    scan,       (* the folders it has still to read                         *)
    cache, alias,   (* the content of the files; and by the second name     *)
    unseen,     (* folders changed without a notification since they were   *)
                (* read (history)                                           *)
    gone        (* paths of folders that were removed, or renamed from or   *)
                (* to (history)                                             *)

disk == <<dir, file, version, open, used>>
inotify == <<watched, gen, events, edge>>
lists == <<folderlist, foldermap>>
batch == <<watcher, watchfolder_list, remove_folders, scan>>
maps == <<cache, alias>>
history == <<unseen, gone>>
files_vars == <<disk, inotify, lists, batch, maps, history>>

None == 0
Contents == 1 .. MaxVersion

(* A watch descriptor is not used again. *)
Wd(i) == <<i, gen[i]>>
Wds == Inodes \X Nat

Slash == <<"/">>
Parent(f) == CHOOSE p \in Folders : /\ IsPrefix(p \o Slash, f)
                                    /\ \A q \in Folders : IsPrefix(q \o Slash, f) => Len(q) <= Len(p)
Name(f) == SubSeq(f, Len(Parent(f)) + 2, Len(f))
(* The name of a folder on the disk has no slash. *)
ASSUME NamesAssumption == \A f \in Folders \ {Root} : "/" \notin Range(Name(f))
Child(p, name) == p \o Slash \o name
Exists(f) == dir[f] # None
Above(f) == {g \in Folders : g = f \/ IsPrefix(g \o Slash, f)}
Below(f) == {g \in Folders : IsPrefix(f \o Slash, g)}

Kinds == {"create", "delete", "file", "ignored"}

FilesTypeOK ==
    /\ dir \in [Folders -> Inodes \cup {None}] /\ file \in [Inodes -> Contents \cup {None}]
    /\ version \in 0 .. MaxVersion /\ open \subseteq Inodes /\ used \in Inodes
    /\ watched \subseteq Inodes /\ gen \in [Inodes -> Nat] /\ edge \in BOOLEAN
    /\ \A k \in DOMAIN events : events[k].wd \in Wds /\ events[k].kind \in Kinds
    /\ folderlist \subseteq Folders /\ DOMAIN foldermap \subseteq Wds
    /\ \A wd \in DOMAIN foldermap : foldermap[wd] \in Folders \cup {<<>>}
    /\ watcher \in {"idle", "read", "flush", "scan", "remove"} /\ watchfolder_list \in Nat
    /\ remove_folders \subseteq Wds /\ scan \subseteq Folders
    /\ cache \in [Folders -> Contents \cup {None}] /\ alias \in Contents \cup {None}
    /\ unseen \subseteq Folders /\ gone \subseteq Folders

(* DeviceServer has read its configuration: the web folder, still empty, is watched. *)
FilesInit ==
    /\ dir = [f \in Folders |-> IF f = Root THEN 1 ELSE None]
    /\ file = [i \in Inodes |-> None] /\ version = 0 /\ open = {} /\ used = 1
    /\ watched = {1} /\ gen = [i \in Inodes |-> 0] /\ events = <<>> /\ edge = FALSE
    /\ folderlist = {Root} /\ foldermap = [wd \in {<<1, 0>>} |-> Root]
    /\ watcher = "idle" /\ watchfolder_list = 0 /\ remove_folders = {} /\ scan = {}
    /\ cache = [f \in Folders |-> None] /\ alias = None
    /\ unseen = {} /\ gone = {}

-----------------------------------------------------------------------------
(* The disk                                                                *)

(* What inotify tells of a change in inode i: nothing when it is not watched. *)
Event(i, kind, name) ==
    IF i \in watched THEN <<[wd |-> Wd(i), kind |-> kind, name |-> name]>> ELSE <<>>

Notify(news, folders) ==
    /\ events' = events \o news /\ edge' = (edge \/ news # <<>>)
    /\ unseen' = IF news = <<>> THEN unseen \cup folders ELSE unseen

Changed == version < MaxVersion /\ version' = version + 1

MakeFolder(f) ==
    /\ f # Root /\ ~Exists(f) /\ Exists(Parent(f)) /\ Changed
    /\ used + 1 \in Inodes /\ used' = used + 1 /\ dir' = [dir EXCEPT ![f] = used + 1]
    /\ Notify(Event(dir[Parent(f)], "create", Name(f)), {f})
    /\ UNCHANGED <<file, open, watched, gen, lists, batch, maps, gone>>

(* rmdir: the watch of the folder ends with it. *)
RemoveFolder(f) ==
    /\ f # Root /\ Exists(f) /\ Changed
    /\ file[dir[f]] = None /\ \A g \in Below(f) : ~Exists(g)
    /\ dir' = [dir EXCEPT ![f] = None] /\ watched' = watched \ {dir[f]}
    /\ Notify(Event(dir[f], "ignored", <<>>) \o Event(dir[Parent(f)], "delete", Name(f)), {f})
    /\ gone' = gone \cup {f}
    /\ UNCHANGED <<file, open, used, gen, lists, batch, maps>>

(* IN_MOVED_FROM and IN_MOVED_TO are handled as deletion and creation. *)
RenameFolder(f, g) ==
    /\ Root \notin {f, g} /\ Exists(f) /\ ~Exists(g) /\ Changed
    /\ Exists(Parent(g)) /\ \A h \in Below(f) : ~Exists(h) /\ h # g
    /\ dir' = [dir EXCEPT ![f] = None, ![g] = dir[f]]
    /\ Notify(Event(dir[Parent(f)], "delete", Name(f)) \o Event(dir[Parent(g)], "create", Name(g)),
              {f, g})
    /\ gone' = gone \cup {f, g}
    /\ UNCHANGED <<file, open, used, watched, gen, lists, batch, maps>>

(* The file is created or truncated; what a reader finds from now on is a part of it. *)
OpenFile(f) ==
    /\ Exists(f) /\ dir[f] \notin open /\ Changed
    /\ open' = open \cup {dir[f]} /\ file' = [file EXCEPT ![dir[f]] = version + 1]
    /\ IF file[dir[f]] = None THEN Notify(Event(dir[f], "file", <<>>), {f})
                              ELSE UNCHANGED <<events, edge, unseen>>
    /\ UNCHANGED <<dir, used, watched, gen, lists, batch, maps, gone>>

CloseFile(f) ==
    /\ Exists(f) /\ dir[f] \in open /\ Changed
    /\ open' = open \ {dir[f]} /\ file' = [file EXCEPT ![dir[f]] = version + 1]
    /\ Notify(Event(dir[f], "file", <<>>), {f})
    /\ UNCHANGED <<dir, used, watched, gen, lists, batch, maps, gone>>

RemoveFile(f) ==
    /\ Exists(f) /\ file[dir[f]] # None /\ dir[f] \notin open /\ Changed
    /\ file' = [file EXCEPT ![dir[f]] = None]
    /\ Notify(Event(dir[f], "file", <<>>), {f})
    /\ UNCHANGED <<dir, open, used, watched, gen, lists, batch, maps, gone>>

Disk(f) == \/ MakeFolder(f) \/ RemoveFolder(f) \/ \E g \in Folders : RenameFolder(f, g)
           \/ OpenFile(f) \/ CloseFile(f) \/ RemoveFile(f)

-----------------------------------------------------------------------------
(* filewatcherevent                                                        *)

(* The pause was granted or refused; then the notifications stay unread. *)
Execute == /\ watcher = "idle" /\ edge /\ edge' = FALSE
           /\ watcher' \in {"read", "idle"}
           /\ UNCHANGED <<disk, watched, gen, events, lists, watchfolder_list, remove_folders,
                          scan, maps, history>>

(* Mutant: add_folder does not look for folders in the new one. *)
NewFoldersFlat(f) == {g \in {f} \cap Folders : Exists(g) /\ g \notin folderlist}

(* add_folder: the folder and those in it, down to any that folderlist holds. *)
NewFolders(f) == {g \in ({f} \cap Folders) \cup Below(f) :
                     Exists(g) /\ \A h \in Above(g) \cap ({f} \cup Below(f)) : h \notin folderlist}

(* The watch of an inode that is watched already is the same, and foldermap keeps its name. *)
AddFolder(f, known) ==
    LET new == NewFolders(f)
    IN /\ folderlist' = folderlist \cup new
       /\ watched' = watched \cup {dir[g] : g \in new}
       /\ foldermap' = [wd \in DOMAIN known \cup {Wd(dir[g]) : g \in new} |->
                            IF wd \in DOMAIN known THEN known[wd]
                                                   ELSE CHOOSE g \in new : Wd(dir[g]) = wd]

(* Mutant: a folder that is renamed or removed keeps its watch. *)
RemovedNothing(f) == {}

(* Every watch whose path starts with that of the removed folder. *)
Removed(f) == {wd \in DOMAIN foldermap : IsPrefix(f, foldermap[wd])}

(* foldermap[event->wd] adds an empty name for a watch it does not hold. *)
Entered(watch) == [wd \in DOMAIN foldermap \cup {watch} |->
                       IF wd \in DOMAIN foldermap THEN foldermap[wd] ELSE <<>>]

(* One notification; folderlist keeps the path of a removed folder. *)
ReadEvent ==
    /\ watcher = "read" /\ events # <<>> /\ events' = Tail(events)
    /\ watchfolder_list' = watchfolder_list + 1
    /\ LET event == Head(events)
           known == Entered(event.wd)
           childfolder == Child(known[event.wd], event.name)
       IN \/ /\ event.kind = "create" /\ AddFolder(childfolder, known)
             /\ UNCHANGED remove_folders
          \/ /\ event.kind = "delete" /\ foldermap' = known
             /\ remove_folders' = remove_folders \cup Removed(childfolder)
             /\ UNCHANGED <<folderlist, watched>>
          \/ /\ event.kind \in {"file", "ignored"} /\ foldermap' = known
             /\ UNCHANGED <<folderlist, watched, remove_folders>>
    /\ UNCHANGED <<disk, gen, edge, watcher, scan, maps, history>>

(* EAGAIN. *)
ReadAll == /\ watcher = "read" /\ events = <<>>
           /\ watcher' = "flush"
           /\ UNCHANGED <<disk, inotify, lists, watchfolder_list, remove_folders, scan,
                          maps, history>>

(* Mutant: flush_cache does nothing. *)
FlushedNot == cache
Flushed == [f \in Folders |-> None]

(* receive_event_finalize for each notification: flush_cache, then update_folder. *)
Flush == /\ watcher = "flush"
         /\ IF watchfolder_list = 0
            THEN watcher' = "remove" /\ UNCHANGED <<watchfolder_list, scan, maps>>
            ELSE /\ watcher' = "scan" /\ scan' = Folders
                 /\ watchfolder_list' = watchfolder_list - 1
                 /\ cache' = Flushed /\ alias' = None
         /\ UNCHANGED <<disk, inotify, lists, remove_folders, history>>

OnDisk(f) == IF Exists(f) THEN file[dir[f]] ELSE None

(* filemap::add_folder and add_file: insert does not replace what is there. *)
ReadFolder(f) ==
    /\ watcher = "scan" /\ f \in scan /\ scan' = scan \ {f}
    /\ cache' = [cache EXCEPT ![f] = IF @ = None THEN OnDisk(f) ELSE @]
    /\ unseen' = unseen \ {f}
    /\ UNCHANGED <<disk, inotify, lists, watcher, watchfolder_list, remove_folders, alias, gone>>

(* update_folder_mapping. *)
MapFolders == /\ watcher = "scan" /\ scan = {} /\ watcher' = "flush"
              /\ alias' = IF alias = None THEN cache[Dest] ELSE alias
              /\ UNCHANGED <<disk, inotify, lists, watchfolder_list, remove_folders, scan,
                             cache, history>>

(* inotify_rm_watch, which leaves a notification, and foldermap.erase; then the threads are
   resumed. *)
RemoveWatches ==
    /\ watcher = "remove" /\ watcher' = "idle" /\ remove_folders' = {}
    /\ LET ended == {i \in watched : Wd(i) \in remove_folders}
       IN /\ watched' = watched \ ended
          /\ gen' = [i \in Inodes |-> IF i \in ended THEN gen[i] + 1 ELSE gen[i]]
          /\ events' = events \o [k \in 1 .. Cardinality(ended) |->
                                     [wd |-> Wd(SetToSeq(ended)[k]), kind |-> "ignored", name |-> <<>>]]
          /\ edge' = (edge \/ ended # {})
    /\ foldermap' = [wd \in DOMAIN foldermap \ remove_folders |-> foldermap[wd]]
    /\ UNCHANGED <<disk, folderlist, watchfolder_list, scan, maps, history>>

FilesNext == \/ \E f \in Folders : Disk(f) \/ ReadFolder(f)
             \/ Execute \/ ReadEvent \/ ReadAll \/ Flush \/ MapFolders \/ RemoveWatches

FilesSpec == FilesInit /\ [][FilesNext]_files_vars

-----------------------------------------------------------------------------
(* All notifications were dealt with. *)
Quiet == watcher = "idle" /\ events = <<>>

(* When every notification was dealt with, the cache holds what is on the disk, under both
   names: a file that changed while it was read, or that was read half written, has been
   read again.  Except for files that are being written, and for folders that changed
   without a notification. *)
CacheIsFresh ==
    Quiet => \A f \in Folders :
                 \/ f \in unseen
                 \/ Exists(f) /\ dir[f] \in open
                 \/ cache[f] = OnDisk(f) /\ (f = Dest => alias = cache[f])

(* The watch of a folder may be gone when its path starts with that of a folder that was once
   removed or renamed, or with a slash and the name of one: that is all childfolder is for a
   watch that foldermap does not hold any more. *)
MayBeLost(f) == \E g \in gone : IsPrefix(g, f) \/ IsPrefix(Child(<<>>, Name(g)), f)

(* And every folder is watched, those that were made in a new folder before it was watched
   too.  Except for those that MayBeLost names: such a path stays in folderlist, and the
   watches of its namesakes are removed with its own. *)
UnwatchedWasGone ==
    Quiet => \A f \in Folders : Exists(f) /\ dir[f] \notin watched => MayBeLost(f)

(* And the watcher knows every watch by the path the folder has now, however folders were
   removed, made again and renamed: the path of a child is put together from it.  Except for
   one that was renamed out of a folder which had lost its watch. *)
WatchHasItsPath ==
    /\ FilesTypeOK
    /\ Quiet => \A f \in Folders : Exists(f) /\ dir[f] \in watched =>
                 /\ Wd(dir[f]) \in DOMAIN foldermap
                 /\ LET known == foldermap[Wd(dir[f])]
                    IN known = f \/ (known # Root /\ MayBeLost(Parent(known)))
=============================================================================
