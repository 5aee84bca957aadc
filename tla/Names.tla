------------------------------- MODULE Names -------------------------------
(***************************************************************************)
(* The names a client resolves before it talks to anyone: the paths of     *)
(* files (FileSystemImpl::getStandardPath), Kerberos principals            *)
(* (KerberosName) and the namenodes of a nameservice (NamenodeInfo).       *)
(*                                                                         *)
(* A path is the sequence of what stands between its slashes, so "/a//b/"  *)
(* is <<"", "a", "", "b", "">> and the empty path <<>>.  The other texts   *)
(* are sequences of words and of the separators the code looks for.        *)
(***************************************************************************)
EXTENDS Integers, Sequences, FiniteSets, SequencesExt, FiniteSetsExt

\* StringSplit: strtok_r drops what is empty between two separators.
StringSplitPath(path) == SelectSeq(path, LAMBDA c : c # "")

GetAbsPath(prefix, path) ==
    IF path = <<>> THEN prefix ELSE IF path[1] = "" THEN path ELSE prefix \o path

\* The components from the last to the first; skip counts the ".." that still
\* have to remove one.
CanonicalizePathNoCount(path) ==
    LET step(tmp, c) ==
            CASE c = "." -> tmp
              [] c = ".." -> [tmp EXCEPT !.skip = 1]
              [] c \notin {".", ".."} /\ tmp.skip > 0 -> [tmp EXCEPT !.skip = @ - 1]
              [] OTHER -> [tmp EXCEPT !.kept = <<c>> \o @]
    IN  FoldRight(LAMBDA c, tmp : step(tmp, c), StringSplitPath(path), [skip |-> 0, kept |-> <<>>]).kept
CanonicalizePath(path) ==
    LET step(tmp, c) ==
            CASE c = "." -> tmp
              [] c = ".." -> [tmp EXCEPT !.skip = @ + 1]
              [] c \notin {".", ".."} /\ tmp.skip > 0 -> [tmp EXCEPT !.skip = @ - 1]
              [] OTHER -> [tmp EXCEPT !.kept = <<c>> \o @]
    IN  FoldRight(LAMBDA c, tmp : step(tmp, c), StringSplitPath(path), [skip |-> 0, kept |-> <<>>]).kept

getStandardPath(workingDir, path) == CanonicalizePath(GetAbsPath(workingDir, path))

-----------------------------------------------------------------------------
(* KerberosName *)

\* KerberosName::parse: the leftmost place the pattern "name(/host)?@realm"
\* matches, as long as it can.  Without an "@" all of it is the name.
parse(principal) ==
    LET at(c, i) == i <= Len(principal) /\ principal[i] = c
        firstFrom(i, S) == Min({j \in i .. Len(principal) : principal[j] \in S} \cup {Len(principal) + 1})
        matches(i) == LET p == firstFrom(i, {"@"})
                      IN  at("@", p) /\ Cardinality({j \in i .. p : at("/", j)}) <= 1
        starts == {i \in 1 .. Len(principal) : matches(i)}
        start  == Min(starts)
        slash  == firstFrom(start, {"/", "@"})
        p      == firstFrom(start, {"@"})
    IN  IF starts = {} THEN [name |-> principal, host |-> <<>>, realm |-> <<>>]
        ELSE [name  |-> SubSeq(principal, start, slash - 1),
              host  |-> SubSeq(principal, slash + 1, p - 1),
              realm |-> SubSeq(principal, p + 1, firstFrom(p + 1, {"/", "@"}) - 1)]

getPrincipal(k) == k.name \o (IF k.host = <<>> THEN <<>> ELSE <<"/">> \o k.host)
                          \o (IF k.realm = <<>> THEN <<>> ELSE <<"@">> \o k.realm)

-----------------------------------------------------------------------------
(* NamenodeInfo *)

StringTrim(text) ==
    LET words == {i \in DOMAIN text : text[i] # " "}
    IN  IF words = {} THEN <<>> ELSE SubSeq(text, Min(words), Max(words))

\* StringSplit at the commas, nothing empty.
StringSplit(text) ==
    LET commas == {0, Len(text) + 1} \cup {i \in DOMAIN text : text[i] = ","}
        starts == {i \in commas : i < Len(text) + 1 /\ i + 1 \notin commas}
        end(i) == Min({j \in commas : j > i})
    IN  [n \in 1 .. Cardinality(starts) |->
            LET i == CHOOSE x \in starts : Cardinality({y \in starts : y < x}) = n - 1
            IN  SubSeq(text, i + 1, end(i) - 1)]

\* GetHANamenodeInfo of a nameservice whose dfs.ha.namenodes entry is text; conf
\* maps the keys <<"rpc", service, name>> and <<"http", service, name>> to addresses.
GetHANamenodeInfo(service, text, conf) ==
    LET nns       == StringSplit(StringTrim(text))
        name(i)   == StringTrim(nns[i])
        addr(key) == IF key \in DOMAIN conf THEN StringTrim(conf[key]) ELSE <<>>
    IN  [i \in DOMAIN nns |-> [rpc  |-> addr(<<"rpc", service, name(i)>>),
                               http |-> addr(<<"http", service, name(i)>>)]]

\* hdfsGetConfiguredNamenodesInternal: an array of copies, an address that is
\* empty the null pointer; no array at all for no namenodes.
Copied(address) == IF address = <<>> THEN <<>> ELSE <<address>>
hdfsGetConfiguredNamenodesInternal(service, text, conf) ==
    LET infos == GetHANamenodeInfo(service, text, conf)
    IN  [i \in DOMAIN infos |-> [rpc_addr |-> Copied(infos[i].rpc), http_addr |-> Copied(infos[i].http)]]

-----------------------------------------------------------------------------

\* What a file system would reach walking the components from the root.
Walk(path) ==
    FoldLeft(LAMBDA dir, c : CASE c \in {"", "."} -> dir
                               [] c = ".." -> (IF dir = <<>> THEN dir ELSE Front(dir))
                               [] OTHER -> Append(dir, c), <<>>, path)

\* The path sent to the namenode is the directory entry a walk over the working
\* directory and then the path ends at, whatever ".." cancels and however many
\* of them climb above the root (CanonicalizePath works from the end).
PathIsWalked(workingDir, path) ==
    getStandardPath(workingDir, path) =
        (IF path # <<>> /\ path[1] = "" THEN Walk(path) ELSE Walk(workingDir \o path))

\* A principal read back from its text is the same principal, unless it has a
\* host and no realm, which the pattern cannot tell from a plain name.
PrincipalIsKept(text) ==
    LET k == parse(text)
    IN  k.host = <<>> \/ k.realm # <<>> => parse(getPrincipal(k)) = k

\* A list of names: no two of them without a comma in between.
IsNameList(text) ==
    \A i, j \in {k \in DOMAIN text : text[k] \notin {" ", ","}} :
        i < j => \E c \in i .. j : text[c] = ","

\* Every namenode of the nameservice is returned with its own addresses and in
\* its order, however the entry and the addresses are spaced; an entry between
\* commas that is blank has none.
NamenodesAreListed(service, text, conf) ==
    LET named == SelectSeq(text, LAMBDA w : w \notin {" ", ","})
        found == SelectSeq(hdfsGetConfiguredNamenodesInternal(service, text, conf),
                           LAMBDA n : n # [rpc_addr |-> <<>>, http_addr |-> <<>>])
        of(kind, w) == <<StringTrim(conf[<<kind, service, <<w>>>>])>>
    IN  IsNameList(text) =>
            found = [i \in DOMAIN named |-> [rpc_addr  |-> of("rpc", named[i]),
                                             http_addr |-> of("http", named[i])]]

=============================================================================
