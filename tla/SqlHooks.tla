------------------------------ MODULE SqlHooks ------------------------------
(***************************************************************************)
(* instrumentation/database/sql/client.go: the hooks of database/sql.      *)
(*                                                                         *)
(* What Open learns about a database is kept in fields added to sql.DB and *)
(* handed on to every Conn, Tx and Stmt made from it.  A call is a Before  *)
(* hook, the original function and an After hook, which share one context: *)
(* calls that make a handle use it to pass the fields on, the others hold  *)
(* their span in it.  The application uses the handles in any order.       *)
(***************************************************************************)
EXTENDS Integers, Sequences

CONSTANTS
  Databases,     \* data sources; each field taken from one is written as it
  Queries,       \* statements of the application
  MaxHandles,    \* bounds the handles
  MaxSqlSpans    \* bounds the spans

VARIABLES
  enabled,       \* the instrumentation is switched on
  handles,       \* the *sql.DB, *sql.Conn, *sql.Tx and *sql.Stmt made so far
  sqlCalls,      \* the calls in progress, an inner one last
  sqlSpans       \* the spans started so far

sqlVars == <<enabled, handles, sqlCalls, sqlSpans>>

NoTrace == -1
Unknown == "unknown"     \* server.address when the DSN has none, or is not known
-----------------------------------------------------------------------------
\* The fields.  dbName and driver are empty when nothing is known.
Info(endpoint, driver, dsn, dbName) ==
  [endpoint |-> endpoint, driver |-> driver, dsn |-> dsn, dbName |-> dbName]

Blank3 == Info("", "", "", "")
Learned(d) == Info(d, d, d, d)
\* A connector need not tell its DSN; the driver is found by its type.
Hidden(d) == Info(Unknown, d, "", "")

\* sql and otelCtx are the fields of Stmt and Tx.  The others are histories:
\* what Open was told of the database, the statement and the trace of begin.
Handle(kind, info, source) ==
  [kind |-> kind, info |-> info, sql |-> "", otelCtx |-> NoTrace,
   source |-> source, prepared |-> "", begun |-> NoTrace]

\* The calls that start a span, by the kind of their handle.
SpanOps ==
  [db |-> {"ping", "exec", "query", "begin"}, conn |-> {"ping", "exec", "query", "begin"},
   tx |-> {"exec", "query", "commit", "rollback"}, stmt |-> {"exec", "query"}]

\* The calls that only hand the fields on.
MakeOps == [db |-> {"conn", "prepare"}, conn |-> {"prepare"}, tx |-> {"prepare", "stmt"},
            stmt |-> {}]

Fixed == [ping |-> "PING", begin |-> "START", commit |-> "COMMIT", rollback |-> "ROLLBACK"]

SqlCall == sqlCalls[Len(sqlCalls)]
Rest == SubSeq(sqlCalls, 1, Len(sqlCalls) - 1)
OnHandle == handles[SqlCall.on]
-----------------------------------------------------------------------------
(* Opening a database                                                      *)

\* The switch stays as it is: every Before and After hook but those of Open and
\* OpenDB asks it, and what becomes of a call during which the answer changes is left
\* out.  (Its span stays open, or the handle that it makes knows nothing.)
SqlInit ==
  /\ enabled \in BOOLEAN
  /\ handles = <<>> /\ sqlCalls = <<>> /\ sqlSpans = <<>>

\* sql.Open: the hooks of Open and OpenDB do not ask whether they are enabled.
BeforeOpen ==
  /\ sqlCalls = <<>> /\ Len(handles) < MaxHandles
  /\ \E d \in Databases :
       sqlCalls' = <<[op |-> "Open", source |-> Learned(d), data |-> Learned(d), made |-> 0]>>
  /\ UNCHANGED <<enabled, handles, sqlSpans>>

\* sql.OpenDB, called by the application or by sql.Open, whose own connector
\* hides its DSN.
BeforeOpenDB ==
  /\ \/ /\ sqlCalls = <<>> /\ Len(handles) < MaxHandles
        /\ \E d \in Databases : \E info \in {Learned(d), Hidden(d)} :
             sqlCalls' = <<[op |-> "OpenDB", source |-> info, data |-> info, made |-> 0]>>
     \/ /\ sqlCalls # <<>> /\ SqlCall.op = "Open" /\ SqlCall.made = 0
        /\ sqlCalls' = Append(sqlCalls, [SqlCall EXCEPT !.op = "OpenDB", !.data = Hidden(@.dsn)])
  /\ UNCHANGED <<enabled, handles, sqlSpans>>

AfterOpenDB ==
  /\ sqlCalls # <<>> /\ SqlCall.op = "OpenDB"
  /\ handles' = Append(handles, Handle("db", SqlCall.data, SqlCall.source))
  /\ sqlCalls' = IF Rest = <<>> THEN <<>> ELSE <<[Rest[1] EXCEPT !.made = Len(handles')]>>
  /\ UNCHANGED <<enabled, sqlSpans>>

\* The hook of Open writes the same *sql.DB after the hook of OpenDB; Open may
\* also fail before it gets there, and has no DB then.
AfterOpen ==
  /\ sqlCalls # <<>> /\ SqlCall.op = "Open"
  /\ IF SqlCall.made = 0 THEN UNCHANGED handles
     ELSE handles' = [handles EXCEPT ![SqlCall.made].info = SqlCall.data]
  /\ sqlCalls' = <<>>
  /\ UNCHANGED <<enabled, sqlSpans>>
-----------------------------------------------------------------------------
(* Calls with a span                                                       *)

\* What the span of a call says: the statement, and the fields of the handle.
Statement(h, op, query) ==
  IF h.kind = "stmt" THEN h.sql ELSE IF op \in DOMAIN Fixed THEN Fixed[op] ELSE query

\* txContext: commit and rollback take the context stored by BeginTx.
CallContext(h, op, ctx) ==
  IF op \in {"commit", "rollback"} THEN h.otelCtx ELSE ctx

\* instrumentStart.  A span without a parent starts a trace of its own.
StartSpan(h, op, query, ctx) ==
  [on |-> h.source, kind |-> h.kind, op |-> op, sql |-> Statement(h, op, query), info |-> h.info,
   parent |-> CallContext(h, op, ctx),
   trace |-> IF CallContext(h, op, ctx) = NoTrace THEN Len(sqlSpans) + 1
             ELSE CallContext(h, op, ctx),
   prepared |-> h.prepared, begun |-> h.begun, open |-> TRUE]

\* The caller's context has no span, or one of trace 0.
BeforeSpanOp ==
  /\ sqlCalls = <<>>
  /\ \E i \in 1..Len(handles) : \E op \in SpanOps[handles[i].kind] :
     \E query \in Queries, ctx \in {NoTrace, 0} :
       /\ op = "begin" => Len(handles) < MaxHandles
       /\ IF enabled
          THEN /\ Len(sqlSpans) < MaxSqlSpans
               /\ sqlSpans' = Append(sqlSpans, StartSpan(handles[i], op, query, ctx))
          ELSE UNCHANGED sqlSpans
       /\ sqlCalls' = <<[op |-> op, on |-> i, ctx |-> ctx, query |-> query,
                         span |-> IF enabled THEN Len(sqlSpans) + 1 ELSE 0]>>
  /\ UNCHANGED <<enabled, handles>>

EndSpan == sqlSpans' = IF SqlCall.span = 0 THEN sqlSpans
                       ELSE [sqlSpans EXCEPT ![SqlCall.span].open = FALSE]

\* Mutant: without a span of the caller nothing is stored.
StoreCallersContext(call) == call.ctx

\* What populateTxFromBeginHook stores: the caller's context when it has a
\* span, so that commit and rollback are siblings of begin, or begin's own.
StoredContext(call) ==
  IF call.ctx # NoTrace THEN call.ctx ELSE sqlSpans[call.span].trace

NewTx(call) ==
  LET h == handles[call.on]
  IN IF call.span = 0 THEN Handle("tx", Blank3, h.source)
     ELSE [Handle("tx", sqlSpans[call.span].info, h.source) EXCEPT
             !.otelCtx = StoredContext(call), !.begun = sqlSpans[call.span].trace]

AfterSpanOp ==
  /\ sqlCalls # <<>> /\ "span" \in DOMAIN SqlCall
  /\ \E fails \in BOOLEAN :
       handles' = IF SqlCall.op = "begin" /\ ~fails THEN Append(handles, NewTx(SqlCall)) ELSE handles
  /\ EndSpan
  /\ sqlCalls' = <<>>
  /\ UNCHANGED enabled
-----------------------------------------------------------------------------
(* Calls that make a handle                                                *)

\* Tx.StmtContext takes a statement prepared elsewhere, arg, and hands on its
\* fields instead of the transaction's.
BeforeMakeOp ==
  /\ sqlCalls = <<>> /\ Len(handles) < MaxHandles
  /\ \E i \in 1..Len(handles) : \E op \in MakeOps[handles[i].kind] :
     \E query \in Queries, arg \in 1..Len(handles) :
       /\ IF op = "stmt" THEN handles[arg].kind = "stmt" ELSE arg = i
       /\ sqlCalls' = <<[op |-> op, on |-> i, arg |-> arg,
                         query |-> IF op = "stmt" THEN handles[arg].sql ELSE query,
                         prepared |-> IF op = "stmt" THEN handles[arg].prepared ELSE query]>>
  /\ UNCHANGED <<enabled, handles, sqlSpans>>

\* Mutant: the name of the database is not handed on.
MadeNameless(call) ==
  LET from == handles[call.arg]
  IN [Handle(IF call.op = "conn" THEN "conn" ELSE "stmt",
             [from.info EXCEPT !.dbName = ""], from.source) EXCEPT
        !.sql = call.query, !.prepared = call.prepared]

\* The new handle.  afterTxStmtContextInstrumentation copies endpoint, driver
\* and dbName, and the DSN to a place where nothing looks for it; it does not
\* copy the statement.
Made(call) ==
  LET from == handles[call.arg]
  IN CASE call.op = "conn" ->
            Handle("conn", IF enabled THEN from.info ELSE Blank3, from.source)
       [] call.op = "prepare" ->
            [Handle("stmt", IF enabled THEN from.info ELSE Blank3, from.source) EXCEPT
               !.sql = IF enabled THEN call.query ELSE "", !.prepared = call.prepared]
       [] call.op = "stmt" ->
            [Handle("stmt", IF enabled THEN [from.info EXCEPT !.dsn = ""] ELSE Blank3, from.source)
               EXCEPT !.prepared = call.prepared]

AfterMakeOp ==
  /\ sqlCalls # <<>> /\ "arg" \in DOMAIN SqlCall
  /\ \/ handles' = Append(handles, Made(SqlCall))
     \/ SqlCall.op # "stmt" /\ UNCHANGED handles      \* an error and no handle
  /\ sqlCalls' = <<>>
  /\ UNCHANGED <<enabled, sqlSpans>>

SqlNext ==
  \/ BeforeOpen \/ BeforeOpenDB \/ AfterOpenDB \/ AfterOpen
  \/ BeforeSpanOp \/ AfterSpanOp \/ BeforeMakeOp \/ AfterMakeOp

SqlSpec == SqlInit /\ [][SqlNext]_sqlVars
-----------------------------------------------------------------------------
(* Properties                                                              *)

\* However long the chain of handles, a span names the endpoint, the driver
\* and the name of the database its handle comes from, as Open or OpenDB was
\* told them: the OpenDB inside an Open does not spoil what Open knew.  So it is
\* while the switch is steady: a handle made while it is off has no fields.  The span
\* of a prepared statement names what was prepared, or nothing when the statement
\* went through Tx.StmtContext.
SpansDescribeTheirHandle ==
  \A i \in 1..Len(sqlSpans) :
    /\ [sqlSpans[i].info EXCEPT !.dsn = ""] = [sqlSpans[i].on EXCEPT !.dsn = ""]
    /\ sqlSpans[i].kind = "stmt" =>
         sqlSpans[i].sql = sqlSpans[i].prepared \/ (sqlSpans[i].sql = "" /\ sqlSpans[i].info.dsn = "")

\* A commit or rollback is in the trace of its begin, with or without a span
\* of the caller around them.
CommitsJoinBegin ==
  \A i \in 1..Len(sqlSpans) :
    sqlSpans[i].op \in {"commit", "rollback"} => sqlSpans[i].trace = sqlSpans[i].begun
=============================================================================
