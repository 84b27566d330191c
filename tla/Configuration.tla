---------------------------- MODULE Configuration ----------------------------
(***************************************************************************)
(* What the administrator sets: the servers, folders and mappings of the   *)
(* configuration file (DeviceServer::load_and_execute_config, webmaps and  *)
(* filemap), and the log levels that the tool serverconfig sends to the    *)
(* running server.                                                         *)
(***************************************************************************)
EXTENDS Integers, SequencesExt

None == "none"
NotFound == <<None>>

-----------------------------------------------------------------------------
(* webmaps: folders by port, and mappings and content types by folder.     *)
NoMaps == [ports |-> <<>>, folders |-> {}, watched |-> {}, mappings |-> <<>>, types |-> <<>>]

(* webmaps::add_folder and filewatcherevent::add_folder: the last server of a port decides. *)
AddFolder(maps, port, folder) ==
    [maps EXCEPT !.ports = (port :> folder) @@ @, !.folders = @ \cup {folder},
                 !.watched = @ \cup {folder},
                 !.mappings = @ @@ (folder :> <<>>), !.types = @ @@ (folder :> <<>>)]

AddServer(maps, server) ==
    IF server.ip = "*" /\ server.port # 0 /\ server.type \in {"http", "https"}
    THEN AddFolder(maps, server.port, server.folder) ELSE maps

(* The folders a mapping is for: all that have been added so far, or one of them. *)
Targets(maps, folder) == IF folder = "*" THEN maps.folders ELSE {folder} \cap maps.folders

(* std::unordered_map::insert: what is there stays. *)
InsertNew(table, folders, key, value) ==
    [f \in DOMAIN table |-> IF f \in folders THEN table[f] @@ (key :> value) ELSE table[f]]

AddFolderMapping(maps, e) ==
    [maps EXCEPT !.mappings = InsertNew(@, Targets(maps, e.folder), e.key, e.value)]

AddContentType(maps, e) ==
    [maps EXCEPT !.types = InsertNew(@, Targets(maps, e.folder), e.key, e.value)]

LoadConfig(config) ==
    LET servers == FoldLeft(AddServer, NoMaps, config.servers)
        typed   == FoldLeft(AddContentType, servers, config.types)
    IN  FoldLeft(AddFolderMapping, typed, config.mappings)

(* filemap::add_file: files without a known extension are left out. *)
AddFiles(maps, folder, files) ==
    [path \in {p \in DOMAIN files : files[p] \in DOMAIN maps.types[folder]} |->
        <<folder, path, maps.types[folder][files[path]]>>]

(* filemap::update_folder_mapping, in the order of the hash table: a name that has an entry
   keeps it, and a mapping to one that has none yet is passed over. *)
MapFolder(mappings, order, cache) ==
    FoldLeft(LAMBDA c, source : IF mappings[source] \in DOMAIN c
                                THEN c @@ (source :> c[mappings[source]]) ELSE c,
             cache, order)

(* webmaps::update_folder goes over the mappings twice. *)
Cache(maps, folder, files, order) ==
    LET m == maps.mappings[folder]
    IN  MapFolder(m, order, MapFolder(m, order, AddFiles(maps, folder, files)))

(* webmaps::getfilemap, and the look-up of a request. *)
Lookup(maps, port, path, files, order) ==
    IF port \notin DOMAIN maps.ports THEN NotFound
    ELSE LET cache == Cache(maps, maps.ports[port], files, order)
         IN  IF path \in DOMAIN cache THEN cache[path] ELSE NotFound

-----------------------------------------------------------------------------
(* The configuration that it ought to be *)

Paths == {"/", "/x.html", "/y.txt", "/z"}
SomeFiles == ("/x.html" :> "html") @@ ("/y.txt" :> "txt")

ServerEntry(ip, type, port, folder) == [ip |-> ip, type |-> type, port |-> port, folder |-> folder]
SomeServers == {ServerEntry("*", "http", 80, "a"), ServerEntry("*", "https", 80, "b"),
                ServerEntry("*", "http", 0, "b"), ServerEntry("::1", "http", 90, "b"),
                ServerEntry("*", "simple", 90, "b")}
Setting(folder, key, value) == [folder |-> folder, key |-> key, value |-> value]
SomeMappings == {Setting("*", "/", "/x.html"), Setting("a", "/", "/z"), Setting("*", "/z", "/"),
                 Setting("*", "/z", "/y.txt"), Setting("c", "/", "/y.txt")}
SomeTypes == {<<>>, <<Setting("*", "html", "text/html")>>,
              <<Setting("a", "txt", "text/plain"), Setting("*", "txt", "text/rtf")>>}

UpTo(n, S) == UNION {[1 .. k -> S] : k \in 0 .. n}
Configs == [servers : UpTo(2, SomeServers), types : SomeTypes, mappings : UpTo(3, SomeMappings)]

(* The server that a client finds at a port, and the first setting of a key for its folder *)
FolderOf(config, port) ==
    LET at == SelectLastInSeq(config.servers,
                 LAMBDA s : s.ip = "*" /\ s.port = port /\ port # 0 /\ s.type \in {"http", "https"})
    IN  IF at = 0 THEN None ELSE config.servers[at].folder
FirstSetting(settings, folder, key) ==
    LET at == SelectInSeq(settings, LAMBDA e : e.folder \in {"*", folder} /\ e.key = key)
    IN  IF at = 0 THEN None ELSE settings[at].value

(* A path is a file of a known type, or stands for what it is mapped to, over n steps. *)
Resolve(config, folder) ==
    LET found[n \in 0 .. 3, path \in Paths] ==
            LET type == IF path \in DOMAIN SomeFiles
                        THEN FirstSetting(config.types, folder, SomeFiles[path]) ELSE None
                to   == FirstSetting(config.mappings, folder, path)
            IN  IF type # None THEN <<folder, path, type>>
                ELSE IF n = 0 \/ to = None THEN NotFound ELSE found[n - 1, to]
    IN  found

(* A request to a port gets the file of the folder that was set for it, by its own name or
   one that is mapped to it, whatever the order in which the hash table gives the mappings:
   over two mappings for certain, and over more never another file. *)
ConfigIsApplied(config) ==
    LET maps == LoadConfig(config)
    IN  /\ maps.watched = {maps.ports[p] : p \in DOMAIN maps.ports} \cup maps.folders
        /\ \A port \in {0, 80, 90}, path \in Paths :
              LET folder == FolderOf(config, port)
                  orders == IF folder = None THEN {<<>>}
                            ELSE SetToSeqs(DOMAIN maps.mappings[folder])
                  found  == IF folder = None THEN NotFound ELSE Resolve(config, folder)[2, path]
                  chain  == IF folder = None THEN NotFound ELSE Resolve(config, folder)[3, path]
              IN  \A order \in orders :
                      LET reply == Lookup(maps, port, path, SomeFiles, order)
                      IN  IF found # NotFound THEN reply = found ELSE reply \in {NotFound, chain}

-----------------------------------------------------------------------------
(* serverconfig -c: a list of module:level.  A word is the sequence of its digits, or a name
   that is not taken apart. *)
ModuleNames == <<"SYSTEM", "SOCKET", "EVENT_DISTRIBUTOR", "EVENT_EXECUTOR", "EVENT_SERVER",
                 "CONFIG_SERVER", "IOT_EVENT_SERVER", "IOT_HTTPSERVER", "IOT_HTTP2SERVER",
                 "TEST", "MAX_MODULE", "UNKNOWN">>
MAX_MODULE == 10
UNKNOWN == 11
LevelNames == <<"IGNORE", "DEBUG", "VERBOSE", "INFO", "WARNING", "ERROR", "ALERT">>
ALERT == 6

DigitOf == [d \in {"0", "1", "2", "3", "4", "5", "6", "7", "8", "9"} |->
               CASE d = "0" -> 0 [] d = "1" -> 1 [] d = "2" -> 2 [] d = "3" -> 3 [] d = "4" -> 4
                 [] d = "5" -> 5 [] d = "6" -> 6 [] d = "7" -> 7 [] d = "8" -> 8 [] OTHER -> 9]

(* GetNumber: the first and the last digit are not digits to it. *)
GetNumber(word) ==
    IF word = <<>> \/ \E i \in DOMAIN word :
                          word[i] \notin DOMAIN DigitOf \/ DigitOf[word[i]] \in {0, 9}
    THEN -1
    ELSE FoldLeft(LAMBDA n, d : 10 * n + DigitOf[d], 0, word)

(* to_module_t and to_logger_level *)
ByName(names, word, otherwise) ==
    LET at == SelectInSeq(names, LAMBDA name : word = <<name>>)
    IN  IF at = 0 THEN otherwise ELSE at - 1

ModuleOf(word) ==
    CASE word = <<>> -> UNKNOWN
      [] word # <<>> /\ GetNumber(word) # -1 ->
            IF GetNumber(word) >= UNKNOWN THEN -1 ELSE GetNumber(word)
      [] word = <<"all">> -> MAX_MODULE
      [] OTHER -> IF ByName(ModuleNames, word, UNKNOWN) = UNKNOWN THEN -1
                  ELSE ByName(ModuleNames, word, UNKNOWN)

DEBUG == 1

LevelOf(word) ==
    CASE word = <<>> -> DEBUG
      [] word # <<>> /\ GetNumber(word) # -1 ->
            IF GetNumber(word) > ALERT THEN -1 ELSE GetNumber(word)
      [] word = <<"all">> -> 0
      [] OTHER -> ByName(LevelNames, word, -1)

(* GetConfigLogFromString: -1 stands for the exception. *)
GetConfigLog(item) ==
    [module |-> IF Len(item) > 2 THEN -1 ELSE IF item = <<>> THEN UNKNOWN ELSE ModuleOf(item[1]),
     level  |-> IF Len(item) < 2 THEN DEBUG ELSE LevelOf(item[2])]

(* GetConfigLogList and the message: all of it is sent, or nothing. *)
Message(list) ==
    LET logs == [i \in DOMAIN list |-> GetConfigLog(list[i])]
    IN  IF list = <<>> \/ \E log \in Range(logs) : -1 \in {log.module, log.level} THEN <<>> ELSE logs

(* active_module: only its first element was given a level. *)
FirstLevels == [m \in 0 .. MAX_MODULE - 1 |-> IF m = 0 THEN 5 ELSE 0]

(* configuration_thread_function, set_module and enable_all *)
SetLevel(levels, log) ==
    [m \in DOMAIN levels |-> IF log.module >= MAX_MODULE \/ m = log.module THEN log.level
                             ELSE levels[m]]
Configure(levels, message) == FoldLeft(SetLevel, levels, message)

is_enabled(levels, module, level) == level >= levels[module]

-----------------------------------------------------------------------------
(* What the help says a list means: "module=all for all module, level can be number or name,
   e.g. SYSTEM:6 or system:debug", with the numbers and names that -m and -l list, where all
   modules together have the number after the last. *)
UpperCase == ("system" :> "SYSTEM") @@ ("debug" :> "DEBUG")
NameOf(word) == IF word[1] \in DOMAIN UpperCase THEN UpperCase[word[1]] ELSE word[1]

IsNumber(word) == word # <<>> /\ Range(word) \subseteq DOMAIN DigitOf
ValueOf(word) == FoldLeft(LAMBDA n, d : 10 * n + DigitOf[d], 0, word)

Meant(word) ==
    CASE word \in {<<>>, <<"all">>, <<"MAX_MODULE">>} -> 0 .. MAX_MODULE - 1
      [] IsNumber(word) -> IF ValueOf(word) = MAX_MODULE THEN 0 .. MAX_MODULE - 1
                           ELSE {ValueOf(word)} \cap 0 .. MAX_MODULE - 1
      [] OTHER -> {m \in 0 .. MAX_MODULE - 1 : NameOf(word) = ModuleNames[m + 1]}
MeantLevel(word) ==
    CASE word = <<>> -> {DEBUG}
      [] word = <<"all">> -> {0}
      [] IsNumber(word) -> {ValueOf(word)} \cap 0 .. ALERT
      [] OTHER -> {l \in 0 .. ALERT : NameOf(word) = LevelNames[l + 1]}

(* The words that the tool does not know although its help does. *)
NotKnown(word) == \E i \in DOMAIN word : word[i] \in {"0", "9"} \cup DOMAIN UpperCase

ModuleWords == {<<>>, <<"0">>, <<"1">>, <<"8">>, <<"9">>, <<"1", "0">>, <<"1", "1">>, <<"all">>,
                <<"SYSTEM">>, <<"TEST">>, <<"system">>, <<"MAX_MODULE">>, <<"UNKNOWN">>}
LevelWords == {<<>>, <<"0">>, <<"6">>, <<"7">>, <<"1", "1">>, <<"all">>, <<"ALERT">>, <<"debug">>}
Items == {<<>>} \cup {<<m>> : m \in ModuleWords} \cup (ModuleWords \X LevelWords)
            \cup {<<m, <<"6">>, <<"6">>>> : m \in {<<"1">>, <<>>}}
LogLists == UpTo(2, Items)

WordAt(item, n) == IF Len(item) < n THEN <<>> ELSE item[n]

Means(item) == /\ Len(item) <= 2
               /\ Meant(WordAt(item, 1)) # {} /\ MeantLevel(WordAt(item, 2)) # {}

(* Every module has the level of the last item that means it, or its old one. *)
LevelsFollow(list, levels) ==
    \A m \in 0 .. MAX_MODULE - 1 :
        LET at == SelectLastInSeq(list, LAMBDA item : m \in Meant(WordAt(item, 1)))
        IN  IF at = 0 THEN levels[m] = FirstLevels[m]
            ELSE {levels[m]} = MeantLevel(WordAt(list[at], 2))

(* The list is taken as a whole or not at all, and with a word that the tool does not know
   not at all, although the help knows it.  Whatever is set, ALERT entries are logged. *)
LevelsAreSet(list) ==
    LET levels == Configure(FirstLevels, Message(list))
        known  == \A i \in DOMAIN list :
                     Means(list[i]) /\ \A n \in DOMAIN list[i] : ~NotKnown(list[i][n])
    IN  /\ IF known THEN LevelsFollow(list, levels) ELSE levels = FirstLevels
        /\ \A m \in 0 .. MAX_MODULE - 1 : is_enabled(levels, m, ALERT)

(* A list whose every item has a meaning by the help is taken. *)
HelpIsTrue(list) ==
    (\A item \in Range(list) : Means(item))
        => LevelsFollow(list, Configure(FirstLevels, Message(list)))
=============================================================================
