------------------------------ MODULE DsnParse --------------------------------
(* Data source names (instrumentation/database/sql/dsnparse): what the parsers  *)
(* read out of the strings users open their databases with.  A DSN is a         *)
(* sequence of words and separators; Written is the format each driver          *)
(* documents, with which a user writes host, port, database and password, and   *)
(* Parse is the code.  server.address, server.port and db.namespace of every    *)
(* database span come from here.                                                *)
EXTENDS Integers, Sequences, SequencesExt

CONSTANTS
    Hosts,      \* names and IPv6 addresses, as words and colons
    Ports,      \* <<>> when the user leaves the port out
    DsnDatabases,   \* <<>> when the user names none
    Passwords,  \* may hold separators
    Params      \* the tail a user may append, starting with "?"

VARIABLE dsnRead    \* the DSN read last: its parts, what was found, what the spans will say

DsnInfo(h, p, d) == [host |-> h, port |-> p, db |-> d]
NoInfo == DsnInfo(<<>>, <<>>, <<>>)

-----------------------------------------------------------------------------
(* Strings as sequences.                                                        *)

FirstFrom(s, i, Chars) ==
    LET at == {j \in i..Len(s) : s[j] \in Chars} IN IF at = {} THEN 0 ELSE Min(at)
FirstOf(s, Chars) == FirstFrom(s, 1, Chars)
LastOf(s, c) == Max({i \in DOMAIN s : s[i] = c} \cup {0})
UpTo(s, i) == IF i = 0 THEN s ELSE SubSeq(s, 1, i - 1)
After(s, i) == SubSeq(s, i + 1, Len(s))
Trim(s, c) == IF s # <<>> /\ Head(s) = c THEN Tail(s) ELSE s
Default(s, d) == IF s = <<>> THEN d ELSE s

TrimHostBrackets(h) ==
    IF Len(h) > 1 /\ Head(h) = "[" /\ Last(h) = "]" THEN SubSeq(h, 2, Len(h) - 1) ELSE h

\* host:port with the port after the brackets of an IPv6 address.
SplitBracketed(a, port) ==
    LET rb == LastOf(a, "]")
    IN  IF a # <<>> /\ Head(a) = "[" /\ rb > 0
        THEN <<SubSeq(a, 2, rb - 1), IF After(a, rb) # <<>> THEN After(a, rb + 1) ELSE port>>
        ELSE IF LastOf(a, ":") > 0 THEN <<UpTo(a, LastOf(a, ":")), After(a, LastOf(a, ":"))>>
        ELSE <<a, port>>

\* net/url: scheme://user@host:port/path?query.
Url(s) ==
    LET rest == After(s, 2)
        path == FirstOf(rest, {"/", "?"})
        authority == UpTo(rest, path)
        host == SplitBracketed(After(authority, LastOf(authority, "@")), <<>>)
        tail == IF path = 0 THEN <<>> ELSE After(rest, path - 1)
        query == FirstOf(tail, {"?"})
    IN  [scheme |-> s[1], host |-> host[1], port |-> host[2], path |-> Trim(UpTo(tail, query), "/"),
         database |-> IF query > 0 /\ query + 2 < Len(tail) /\ tail[query + 1] = "database"
                      THEN UpTo(After(tail, query + 2), FirstOf(After(tail, query + 2), {"&"}))
                      ELSE <<>>]

IsUrl(s) == Len(s) > 1 /\ s[2] = "://"

-----------------------------------------------------------------------------
(* The parsers.                                                                 *)

UrlInfo(u, port) == DsnInfo(u.host, Default(u.port, port), u.path)

\* A quoted value ends at the first quote no backslash stands before.
Quoted(s, from) ==
    LET q[j \in from..(Len(s) + 2)] ==
          IF j > Len(s) THEN <<<<>>, j>>
          ELSE IF s[j] = "'" THEN <<<<>>, j + 1>>
          ELSE LET k == IF s[j] = "\\" /\ j < Len(s) THEN j + 1 ELSE j
               IN  <<<<s[k]>> \o q[k + 1][1], q[k + 1][2]>>
    IN  q[from]

\* Mutant: a quoted value ends at a blank like any other.
UnquotedOnly(s, i) ==
    LET e == FirstOf(After(s, i), {" "})
    IN  <<UpTo(After(s, i), e), IF e = 0 THEN Len(s) + 1 ELSE i + e>>

\* The value that starts after the "=" at i, and where it ends.
LibpqValue(s, i) ==
    IF i < Len(s) /\ s[i + 1] = "'" THEN Quoted(s, i + 2)
    ELSE LET e == FirstOf(After(s, i), {" "})
         IN  <<UpTo(After(s, i), e), IF e = 0 THEN Len(s) + 1 ELSE i + e>>

\* keyword=value pairs; the last pair of a keyword counts.
LibpqKV(s) ==
    LET kv[i \in 1..(Len(s) + 2)] ==
          LET eq == FirstFrom(s, i, {"="})
              word == SelectSeq(SubSeq(s, i, eq - 1), LAMBDA c : c # " ")
              key == IF Len(word) = 1 THEN word[1] ELSE ""
              value == LibpqValue(s, eq)
          IN  IF i > Len(s) \/ eq = 0 THEN [k \in {} |-> <<>>]
              ELSE kv[value[2]] @@ (key :> value[1])
        found == kv[1] @@ ("host" :> <<"localhost">>) @@ ("port" :> <<"5432">>)
                 @@ ("dbname" :> <<>>)
    IN  DsnInfo(TrimHostBrackets(found["host"]), found["port"], found["dbname"])

ParsePostgres(s) ==
    IF IsUrl(s) /\ s[1] = "postgres" THEN UrlInfo(Url(s), <<"5432">>) ELSE LibpqKV(s)

\* The address of a MySQL DSN without parentheses: a transport, and a port alone
\* means localhost.
MysqlStripProtocol(a) ==
    LET colon == FirstOf(a, {":"})
        rest == After(a, colon)
    IN  IF colon = 0 \/ UpTo(a, colon) \notin {<<"tcp">>, <<"unix">>, <<"udp">>, <<"pipe">>}
        THEN a
        ELSE IF rest \in Ports /\ rest # <<>> THEN <<"localhost", ":">> \o rest ELSE rest

MysqlSplitAddr(a) ==
    IF a = <<>> THEN <<a, <<>>>>
    ELSE SplitBracketed(a, IF FirstOf(a, {"/"}) > 0 THEN <<>> ELSE <<"3306">>)

\* The user ends at the last "@" before the first parenthesis, so a password may
\* hold an "@"; a unix socket is a path, and the last slash ends it.
ParseMySQL(s) ==
    LET at == LastOf(UpTo(s, FirstOf(s, {"("})), "@")
        rest == After(s, at)
        lp == FirstOf(rest, {"("})
        rp == FirstOf(rest, {")"})
        plain == UpTo(rest, FirstOf(rest, {"?"}))
        sl == IF Len(rest) > 1 /\ rest[1] = "unix" /\ rest[2] = ":"
              THEN LastOf(plain, "/") ELSE FirstOf(rest, {"/"})
        address == MysqlSplitAddr(IF lp > 0 THEN SubSeq(rest, lp + 1, rp - 1)
                                  ELSE MysqlStripProtocol(UpTo(rest, sl)))
        tail == Trim(IF lp > 0 THEN After(rest, rp)
                     ELSE IF sl = 0 THEN <<>> ELSE After(rest, sl), "/")
    IN  DsnInfo(address[1], address[2], UpTo(tail, FirstOf(tail, {"?"})))

\* SQLite is local: the file's name is the database.
ParseSQLite(s) ==
    LET name == Trim(s, "file:")
        path == UpTo(name, FirstOf(name, {"?"}))
    IN  DsnInfo(<<"sqlite3">>, <<>>, After(path, LastOf(path, "/")))

\* key=value pairs between semicolons; a server may name its port after a comma
\* or its instance after a backslash.
SQLServerKV(s) ==
    LET value(key) ==
          LET at == {k \in 1..Len(s) : s[k] = key /\ (k = 1 \/ s[k - 1] = ";")}
              rest == After(s, Max(at) + 1)
          IN  IF at = {} THEN <<>> ELSE UpTo(rest, FirstOf(rest, {";"}))
        server == value("server")
        comma == FirstOf(server, {","})
        host == TrimHostBrackets(UpTo(server, FirstOf(server, {",", "\\"})))
        port == Default(value("port"), IF comma = 0 THEN <<>> ELSE After(server, comma))
    IN  DsnInfo(host, IF host = <<>> THEN port ELSE Default(port, <<"1433">>), value("database"))

QueryAsPath(u) == [u EXCEPT !.path = u.database]
ParseSQLServer(s) ==
    IF IsUrl(s) THEN UrlInfo(QueryAsPath(Url(s)), <<"1433">>)
    ELSE SQLServerKV(s)

\* A URL without a path names its database in the query.
PathOrQuery(u) == [u EXCEPT !.path = Default(u.path, u.database)]
ParseClickHouse(s) ==
    UrlInfo(PathOrQuery(Url(s)), IF s[1] = "http" THEN <<"8123">> ELSE <<"9000">>)

ParseOracle(s) ==
    LET connect == Trim(After(s, FirstOf(s, {"@"})), "//")
        sl == FirstOf(connect, {"/"})
        address == SplitBracketed(UpTo(connect, sl), <<"1521">>)
    IN  IF IsUrl(s) THEN UrlInfo(Url(s), <<"1521">>)
        ELSE IF FirstOf(s, {"@"}) = 0 THEN NoInfo
        ELSE DsnInfo(address[1], address[2], IF sl = 0 THEN <<>> ELSE After(connect, sl))

\* The registry: drivers without a parser get a best-effort URL parse.
ParseDSN(driver, s) ==
    CASE driver = "postgres"   -> ParsePostgres(s)
      [] driver = "mysql"      -> ParseMySQL(s)
      [] driver = "sqlite"     -> ParseSQLite(s)
      [] driver = "sqlserver"  -> ParseSQLServer(s)
      [] driver = "clickhouse" -> ParseClickHouse(s)
      [] driver = "oracle"     -> ParseOracle(s)
      [] OTHER -> IF IsUrl(s) THEN UrlInfo(Url(s), <<>>) ELSE NoInfo

\* What stands after the last slash, for a DSN the parser found no database in.
ParseDbName(s) ==
    LET last == Max({i \in DOMAIN s : s[i] \in {"/", "//", "://"}} \cup {0})
        name == After(s, last)
    IN  IF last = 0 THEN <<>> ELSE UpTo(name, FirstOf(name, {"?", "&"}))

\* net.JoinHostPort brackets a host with colons.
Bracketed(h) == IF FirstOf(h, {":"}) > 0 THEN <<"[">> \o h \o <<"]">> ELSE h

\* Mutant: the host and the port joined by a colon.
JoinNaively(i) == TrimHostBrackets(i.host) \o (IF i.port = <<>> THEN <<>> ELSE <<":">> \o i.port)

\* The endpoint of the spans; an IPv6 host gets its brackets back.
Addr(i) ==
    LET h == TrimHostBrackets(i.host)
    IN  IF h = <<>> \/ i.port = <<>> THEN h
        ELSE Bracketed(h) \o <<":">> \o i.port

\* net.SplitHostPort, with which the span attributes take the endpoint apart.
SplitHostPort(a) ==
    IF a # <<>> /\ Head(a) = "[" THEN SplitBracketed(a, <<>>)
    ELSE IF FirstOf(a, {":"}) = 0 THEN <<a, <<>>>>
    ELSE IF FirstOf(a, {":"}) = LastOf(a, ":")
         THEN <<UpTo(a, FirstOf(a, {":"})), After(a, FirstOf(a, {":"}))>>
    ELSE <<a, <<>>>>    \* too many colons: an error, and the whole is the host

-----------------------------------------------------------------------------
(* The formats the drivers document, with which users write host, port, data-   *)
(* base and password.                                                           *)

PartsWritten == [host : Hosts, port : Ports, db : DsnDatabases, pw : Passwords, params : Params]

Endpoint(p) ==
    Bracketed(p.host) \o (IF p.port = <<>> THEN <<>> ELSE <<":">> \o p.port)

\* A password in a URL is percent-encoded: no separator is left in it.
UrlWritten(scheme, p, path) ==
    <<scheme, "://", "u", ":", "encoded", "@">> \o Endpoint(p) \o path \o p.params

\* Without a database a URL ends with its authority.
PathTo(db) == IF db = <<>> THEN <<>> ELSE <<"/">> \o db

\* In quotes, a quote takes a backslash.
LibpqQuote(v) ==
    LET escaped(c) == IF c = "'" THEN <<"\\", "'">> ELSE <<c>>
    IN  <<"'">> \o FlattenSeq([i \in DOMAIN v |-> escaped(v[i])]) \o <<"'">>

LibpqWritten(p) ==
    <<"password", "=">> \o LibpqQuote(p.pw) \o <<" ", "host", "=">> \o p.host
    \o (IF p.port = <<>> THEN <<>> ELSE <<" ", "port", "=">> \o p.port)
    \o <<" ", "dbname", "=">> \o LibpqQuote(p.db)

MySQLWritten(p, address) ==
    <<"u", ":">> \o p.pw \o <<"@">> \o address \o <<"/">> \o p.db \o p.params

ServerWritten(p) ==
    <<"server", "=">> \o Bracketed(p.host)
    \o (IF p.port = <<>> THEN <<>> ELSE <<",">> \o p.port)
    \o <<";", "password", "=">> \o p.pw \o <<";", "database", "=">> \o p.db

-----------------------------------------------------------------------------
(* Opening a database: its DSN, what its user meant, and what the hook reads.   *)

Opening(driver, s, meant) == [driver |-> driver, dsn |-> s, meant |-> meant]

Meant(p, port) == DsnInfo(p.host, Default(p.port, port), p.db)

PostgresOpenings ==
    {Opening("postgres", UrlWritten("postgres", p, PathTo(p.db)), Meant(p, <<"5432">>)) :
        p \in PartsWritten}
    \cup {Opening("postgres", LibpqWritten(p), Meant(p, <<"5432">>)) : p \in PartsWritten}

\* A unix socket has no port; a port alone is one of localhost.
MySQLOpenings ==
    {Opening("mysql", MySQLWritten(p, proto \o <<"(">> \o Endpoint(p) \o <<")">>),
             Meant(p, <<"3306">>)) : p \in PartsWritten, proto \in {<<"tcp">>, <<"udp">>}}
    \cup {Opening("mysql", MySQLWritten(p, Endpoint(p)), Meant(p, <<"3306">>)) : p \in PartsWritten}
    \cup {Opening("mysql", MySQLWritten(p, <<"unix", ":", "/", "tmp", "/", "sock">>),
                  DsnInfo(<<"/", "tmp", "/", "sock">>, <<>>, p.db)) : p \in PartsWritten}
    \cup {Opening("mysql", MySQLWritten(p, <<"tcp", ":">> \o p.port),
                  DsnInfo(<<"localhost">>, p.port, p.db)) :
              p \in {q \in PartsWritten : q.port # <<>>}}

SQLiteOpenings ==
    {Opening("sqlite", prefix \o p.db \o p.params, DsnInfo(<<"sqlite3">>, <<>>, p.db)) :
        p \in PartsWritten,
        prefix \in {<<>>, <<"file:">>, <<"file:", "/", "var", "/">>, <<".", "/">>}}

SQLServerOpenings ==
    {Opening("sqlserver", UrlWritten("sqlserver", [p EXCEPT !.params = <<>>],
                                     <<"?", "database", "=">> \o p.db), Meant(p, <<"1433">>)) :
        p \in PartsWritten}
    \cup {Opening("sqlserver", ServerWritten(p), Meant(p, <<"1433">>)) : p \in PartsWritten}

ClickHouseOpenings ==
    UNION {{Opening("clickhouse", UrlWritten(scheme[1], p, PathTo(p.db)),
                    Meant(p, <<scheme[2]>>)),
            Opening("clickhouse", UrlWritten(scheme[1], [p EXCEPT !.params = <<>>],
                                             <<"/", "?", "database", "=">> \o p.db \o <<"&", "x">>),
                    Meant(p, <<scheme[2]>>))} :
           p \in PartsWritten, scheme \in {<<"clickhouse", "9000">>, <<"http", "8123">>}}

\* The password of the traditional form holds no "@".
OracleOpenings ==
    {Opening("oracle", UrlWritten("oracle", p, PathTo(p.db)), Meant(p, <<"1521">>)) :
        p \in PartsWritten}
    \cup {Opening("oracle", <<"u", "/">> \o p.pw \o <<"@">> \o slashes \o Endpoint(p)
                            \o <<"/">> \o p.db, Meant(p, <<"1521">>)) :
              p \in {q \in PartsWritten : FirstOf(q.pw, {"@"}) = 0}, slashes \in {<<>>, <<"//">>}}

UnknownOpenings ==
    {Opening("cockroach", UrlWritten("cockroach", p, PathTo(p.db)), Meant(p, <<>>)) :
        p \in PartsWritten}

Openings ==
    PostgresOpenings \cup MySQLOpenings \cup SQLiteOpenings \cup SQLServerOpenings
    \cup ClickHouseOpenings \cup OracleOpenings \cup UnknownOpenings

DsnInit == dsnRead = [driver |-> "none", meant |-> NoInfo, found |-> NoInfo, endpoint |-> <<>>,
                       namespace |-> <<>>]

\* A span is described by what the parser found and by its endpoint.
Described(o, info) ==
    [driver |-> o.driver, meant |-> o.meant, found |-> info,
     endpoint |-> Default(Addr(info), <<"unknown">>),
     namespace |-> Default(info.db, ParseDbName(o.dsn))]

Read(o) == dsnRead' = Described(o, ParseDSN(o.driver, o.dsn))

DsnNext == \E o \in Openings : Read(o)

-----------------------------------------------------------------------------
(* Properties.                                                                  *)

\* Whatever dialect, form, password and parameters a DSN is written with, the
\* parser finds the host, the port and the database its writer meant, and the
\* endpoint the spans carry comes apart into that host and that port again
\* (server.address and server.port, from DSNInfo.Addr and net.SplitHostPort).
\* A database that was named is the db.namespace; ParseDbName never overrules it.
DsnPartsFound ==
    /\ dsnRead.found = dsnRead.meant
    /\ dsnRead.meant.db # <<>> => dsnRead.namespace = dsnRead.meant.db
    /\ SplitHostPort(dsnRead.endpoint) = <<dsnRead.meant.host, dsnRead.meant.port>>

=============================================================================
