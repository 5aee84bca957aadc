--------------------------- MODULE Configuration ---------------------------
(***************************************************************************)
(* Configurations (common/XmlConfig.cpp): a file of properties becomes a   *)
(* map of texts, and a session takes from it the values it works with      *)
(* (common/SessionConfig.cpp), each with its default and its check.        *)
(*                                                                         *)
(* A text is a sequence of words, <<>> the empty one; a document is the    *)
(* sequence of the elements of a file, a property the sequence of its own. *)
(***************************************************************************)
EXTENDS Integers, Sequences, FiniteSets, TLC, SequencesExt

CONSTANTS Int32Max,      \* the largest int32 and
          Int64Max,      \* the largest int64, scaled to what the texts below hold
          NumberOf       \* the number each numeric text spells

ASSUME ConfigurationAssumption ==
    Int32Max \in Nat /\ Int64Max \in Nat /\ Int32Max <= Int64Max

Value(v)  == [ok |-> TRUE, value |-> v]
Throws(e) == [ok |-> FALSE, error |-> e]

\* strtol of an empty text is 0 and no error; base 0 and the signs are in NumberOf.
Number(text) == IF text = <<>> THEN 0 ELSE NumberOf[text]
IsNumber(text) == text = <<>> \/ text \in DOMAIN NumberOf

StrToInt32(text) ==
    IF IsNumber(text) /\ Number(text) <= Int32Max /\ Number(text) >= -Int32Max - 1
    THEN Value(Number(text)) ELSE Throws("HdfsBadNumFoumat")

StrToInt64(text) ==
    IF IsNumber(text) /\ Number(text) <= Int64Max /\ Number(text) >= -Int64Max - 1
    THEN Value(Number(text)) ELSE Throws("HdfsBadNumFoumat")

StrToBool(text) ==
    CASE text \in {<<"true">>, <<"1">>}  -> Value(TRUE)
      [] text \in {<<"false">>, <<"0">>} -> Value(FALSE)
      [] OTHER -> Throws("HdfsBadBoolFoumat")

\* numeric_limits<double>::min() is the smallest positive double: neither zero
\* nor a negative number passes.
StrToDouble(text) ==
    IF IsNumber(text) /\ Number(text) > 0 THEN Value(Number(text)) ELSE Throws("HdfsBadNumFoumat")

-----------------------------------------------------------------------------
(* Reading a file *)

\* The first name and the first value that have a text; elements of any other
\* name, and further ones, are passed over.
FirstText(property, tag) ==
    LET found == SelectSeq(property, LAMBDA e : e.tag = tag /\ e.text # <<>>)
    IN  IF found = <<>> THEN <<>> ELSE found[1].text

readConfigItem(kv, property) ==
    LET key == FirstText(property, "name")
    IN  IF key = <<>> THEN Throws("HdfsBadConfigFoumat")
        ELSE Value((key[1] :> FirstText(property, "value")) @@ kv)

\* The elements in turn, each a "property"; one that is not, or has no name, ends
\* the reading.  What came before it is in the map, which goes with the
\* DefaultConfig under construction.
readConfigItems(file) ==
    IF file.root # "configuration" THEN Throws("HdfsBadConfigFoumat")
    ELSE FoldLeft(LAMBDA kv, e :
                      CASE ~ kv.ok -> kv
                        [] kv.ok /\ e.tag # "property" -> Throws("HdfsBadConfigFoumat")
                        [] OTHER -> readConfigItem(kv.value, e.items),
                  Value(<<>>), file.doc)

\* Config::update: whatever the object held is gone before the file is read.
ConfigUpdate(file) == IF ~ file.readable THEN Throws("HdfsBadConfigFoumat") ELSE readConfigItems(file)

-----------------------------------------------------------------------------
(* Looking up *)

getString(kv, key, def) == Value(IF key \in DOMAIN kv THEN kv[key] ELSE def)

NotFoundIf(r, error) == IF ~ r.ok /\ r.error = error THEN Throws("HdfsConfigNotFound") ELSE r

getInt32(kv, key, def) ==
    IF key \in DOMAIN kv THEN NotFoundIf(StrToInt32(kv[key]), "HdfsBadNumFoumat") ELSE Value(def)

getInt64(kv, key, def) ==
    IF key \in DOMAIN kv THEN NotFoundIf(StrToInt64(kv[key]), "HdfsBadNumFoumat") ELSE Value(def)

getDouble(kv, key, def) ==
    IF key \in DOMAIN kv THEN NotFoundIf(StrToDouble(kv[key]), "HdfsBadNumFoumat") ELSE Value(def)

\* The handler catches HdfsBadNumFoumat, which StrToBool never throws: a bad
\* boolean comes out as HdfsBadBoolFoumat.
getBool(kv, key, def) ==
    IF key \in DOMAIN kv THEN NotFoundIf(StrToBool(kv[key]), "HdfsBadNumFoumat") ELSE Value(def)

\* The forms without a default.
Required(kv, key, r) == IF key \in DOMAIN kv THEN r ELSE Throws("HdfsConfigNotFound")
getStringRequired(kv, key) == Required(kv, key, getString(kv, key, <<>>))
getInt64Required(kv, key)  == Required(kv, key, getInt64(kv, key, 0))
getInt32Required(kv, key)  == Required(kv, key, getInt32(kv, key, 0))
getDoubleRequired(kv, key) == Required(kv, key, getDouble(kv, key, 0))
getBoolRequired(kv, key)   ==
    Required(kv, key, NotFoundIf(getBool(kv, key, FALSE), "HdfsBadBoolFoumat"))

-----------------------------------------------------------------------------
(* SessionConfig *)

CheckRangeGE(value, target) == value >= target
CheckMultipleOf(value, unit) == value > 0 /\ value % unit = 0
Passes(value, check) ==
    CASE check = <<>> -> TRUE
      [] check # <<>> /\ check[1] = "ge" -> CheckRangeGE(value, check[2])
      [] OTHER -> CheckMultipleOf(value, check[2])

Item(key, value) == [key |-> key, value |-> value, check |-> <<>>]
AtLeast(key, value, target) == [Item(key, value) EXCEPT !.check = <<"ge", target>>]
MultipleOf(key, value, unit) == [Item(key, value) EXCEPT !.check = <<"multiple", unit>>]

Second == 1000

boolValues == <<
    Item("rpc.client.connect.tcpnodelay", TRUE), Item("dfs.client.read.shortcircuit", TRUE),
    Item("output.replace-datanode-on-failure", TRUE), Item("input.notretry-another-node", FALSE),
    Item("input.localread.mappedfile", TRUE), Item("dfs.client.use.legacy.blockreader.local", FALSE)>>

i32Values == <<
    AtLeast("rpc.client.max.idle", 10 * Second, 1),
    Item("rpc.client.ping.interval", 10 * Second), Item("rpc.client.connect.timeout", 600 * Second),
    Item("rpc.client.read.timeout", 3600 * Second), Item("rpc.client.write.timeout", 3600 * Second),
    Item("rpc.client.socekt.linger.timeout", -1), AtLeast("rpc.client.connect.retry", 10, 1),
    Item("rpc.client.timeout", 3600 * Second), AtLeast("dfs.default.replica", 3, 1),
    Item("input.connect.timeout", 600 * Second), Item("input.read.timeout", 3600 * Second),
    Item("input.write.timeout", 3600 * Second),
    AtLeast("input.localread.default.buffersize", 1024 * 1024, 1),
    AtLeast("dfs.prefetchsize", 10, 1), AtLeast("input.read.getblockinfo.retry", 3, 1),
    AtLeast("input.localread.blockinfo.cachesize", 1000, 1), AtLeast("input.read.max.retry", 60, 1),
    MultipleOf("output.default.chunksize", 512, 512), Item("output.default.packetsize", 64 * 1024),
    AtLeast("output.default.write.retry", 10, 1), Item("output.connect.timeout", 600 * Second),
    Item("output.read.timeout", 3600 * Second), Item("output.write.timeout", 3600 * Second),
    Item("output.close.timeout", 3600 * Second), Item("output.packetpool.size", 1024),
    Item("output.heeartbeat.interval", 10 * Second),
    AtLeast("dfs.client.failover.max.attempts", 15, 0),
    AtLeast("dfs.client.read.shortcircuit.streams.cache.size", 256, 0),
    AtLeast("dfs.client.socketcache.expiryMsec", 3000, 0),
    AtLeast("dfs.client.socketcache.capacity", 16, 0),
    Item("dfs.client.read.striped.thread-pool.size", 64)>>

i64Values == <<MultipleOf("dfs.default.blocksize", 64 * 1024 * 1024, 512)>>

strValues == <<
    Item("dfs.default.uri", <<"hdfs://localhost:9000">>), Item("hadoop.security.authentication", <<"simple">>),
    Item("hadoop.security.kerberos.ticket.cache.path", <<>>), Item("dfs.client.log.severity", <<"INFO">>),
    Item("dfs.domain.socket.path", <<>>)>>

\* One table and what was read for its items: the first item that cannot be
\* read, or does not pass its check, ends it.
Load(table, read) ==
    LET checked == [i \in DOMAIN table |->
                       IF read[i].ok /\ ~ Passes(read[i].value, table[i].check)
                       THEN Throws("HdfsConfigInvalid") ELSE read[i]]
        failed  == SelectSeq(checked, LAMBDA r : ~ r.ok)
    IN  IF failed # <<>> THEN failed[1]
        ELSE Value([key \in {table[i].key : i \in DOMAIN table} |->
                       checked[CHOOSE i \in DOMAIN table : table[i].key = key].value])

\* The first failure of the four tables is the one that is thrown.
SessionValues(bools, i32s, i64s, strs) ==
    LET failed == SelectSeq(<<bools, i32s, i64s, strs>>, LAMBDA r : ~ r.ok)
    IN  IF failed # <<>> THEN failed[1]
        ELSE Value([bool |-> bools.value, i32 |-> i32s.value, i64 |-> i64s.value, str |-> strs.value])

SessionConfig(kv) ==
    LET bools == [i \in DOMAIN boolValues |-> getBool(kv, boolValues[i].key, boolValues[i].value)]
        i32s  == [i \in DOMAIN i32Values |-> getInt32(kv, i32Values[i].key, i32Values[i].value)]
        i64s  == [i \in DOMAIN i64Values |-> getInt64(kv, i64Values[i].key, i64Values[i].value)]
        strs  == [i \in DOMAIN strValues |-> getString(kv, strValues[i].key, strValues[i].value)]
    IN  SessionValues(Load(boolValues, bools), Load(i32Values, i32s),
                      Load(i64Values, i64s), Load(strValues, strs))

=============================================================================
