------------------------------ MODULE Services ------------------------------
(***************************************************************************)
(* The market, account, trading and watchlist services over the client of  *)
(* src/client.cpp, and retryWithBackoff() of common/async.hpp around them. *)
(*                                                                         *)
(* Every call has one shape: check the arguments, send one request, turn   *)
(* the answer into a value with a reader of module Json, and turn every    *)
(* exception on the way into an error (tryExecute).  A call is therefore a *)
(* row of a table: the checks, the server's envelope and the reader.  The  *)
(* names of endpoints and the text of parameters and messages are left     *)
(* out.  A call made directly is one made with maxRetries = 1.             *)
(*                                                                         *)
(* The client, with its own repetitions, is that of module HttpClient: it  *)
(* returns an answer or throws ConnectionError, and in the latter case the *)
(* server may have carried the request out all the same.                   *)
(***************************************************************************)
EXTENDS Integers, Sequences, FiniteSets, Json

CONSTANTS Ops,         \* the calls considered
          RetryCounts, \* values of maxRetries
          Statuses,    \* statuses the server answers with
          MaxItems     \* elements of a list the server sends

ASSUME ServicesAssumption ==
    /\ RetryCounts \subseteq Nat
    /\ Statuses \subseteq Nat \ {0}
    /\ MaxItems \in Nat

-----------------------------------------------------------------------------
(* Arguments, reduced to lengths and numbers, and their checks.            *)

GoodArgs == [account |-> 8, symbol |-> 4, option |-> 0, orderId |-> 1, quantity |-> 1,
             price |-> 1, stop |-> 1, expiration |-> 1, text |-> 1, id |-> 1, count |-> 1]

\* Values at the edges of each check.  No option symbol is 0; an OCC symbol has
\* 19 characters.
Edges == [account |-> {0, 7, 8, 20, 21}, symbol |-> {0, 1, 10, 11}, option |-> {4, 10, 19},
          orderId |-> {-1, 0, 1}, quantity |-> {0, 1, 1000000, 1000001},
          price |-> {-1, 0, 1000000, 1000001}, stop |-> {-1, 0}, expiration |-> {0, 1},
          text |-> {0, 1}, id |-> {0, 1}, count |-> {0, 1}]

\* Of a symbol only the length is kept: a wrong character is refused in the same way.
requireValidSymbol(n) == n \in 1..10
requireValidAccountNumber(n) == n \in 8..20
requireValidOrderId(n) == n > 0
requireValidQuantity(q) == q > 0 /\ q <= 1000000
requireValidPrice(p) == p >= 0 /\ p <= 1000000

Holds(check, a) ==
    CASE check = "account" -> requireValidAccountNumber(a.account)
      [] check = "orderId" -> requireValidOrderId(a.orderId)
      [] check = "symbol" -> requireValidSymbol(a.symbol)
      [] check = "quantity" -> requireValidQuantity(a.quantity)
      [] check = "price" -> requireValidPrice(a.price)
      [] check = "stop" -> requireValidPrice(a.stop)
      [] check = "option" -> a.option # 0 => requireValidSymbol(a.option)
      [] check = "hasAccount" -> a.account > 0
      [] check = "hasSymbol" -> a.symbol > 0
      [] check = "hasExpiration" -> a.expiration > 0
      [] check = "hasText" -> a.text > 0
      [] check = "hasId" -> a.id > 0
      [] check = "hasElements" -> a.count > 0
      [] check = "never" -> FALSE

\* The client's argument sets: at most one argument is unusual.
Arguments == {GoodArgs} \cup UNION {{[GoodArgs EXCEPT ![f] = e] : e \in Edges[f]} : f \in DOMAIN Edges}

-----------------------------------------------------------------------------
(* The calls.  A row: the checks, and the reader of the answer.            *)

Row(checks, reader) == [checks |-> checks, reader |-> reader]

QuoteCalls ==
    [getQuotes |-> Row({"hasElements"}, "quotes"),
     getQuotesPost |-> Row({"hasElements"}, "quotes"),
     getQuote |-> Row({"hasSymbol"}, "quote")]

OptionCalls ==
    [getOptionChain |-> Row({"hasSymbol", "hasExpiration"}, "chains"),
     getOptionStrikes |-> Row({"hasSymbol", "hasExpiration"}, "strikes"),
     getOptionExpirations |-> Row({"hasSymbol"}, "expirations"),
     lookupOptionSymbols |-> Row({"hasSymbol"}, "optionSymbols")]

HistoryCalls ==
    [getHistoricalData |-> Row({"hasSymbol"}, "days"),
     getTimeSales |-> Row({"hasSymbol"}, "sales"),
     getETBList |-> Row({}, "securities"),
     getClock |-> Row({}, "clock"),
     getCalendar |-> Row({}, "calendar")]

LookupCalls ==
    [searchSymbols |-> Row({"hasText"}, "securities"),
     lookupSymbols |-> Row({"hasText"}, "securities")]

FundamentalsCalls ==
    [getCompanyInfo |-> Row({"hasSymbol"}, "company"),
     getCorporateCalendar |-> Row({"hasSymbol"}, "events"),
     getDividends |-> Row({"hasSymbol"}, "dividends"),
     getCorporateActions |-> Row({"hasSymbol"}, "actions"),
     getFinancialRatios |-> Row({"hasSymbol"}, "ratios"),
     getFinancialStatements |-> Row({"hasSymbol"}, "statements"),
     getPriceStatistics |-> Row({"hasSymbol"}, "statistics")]

AccountCalls ==
    [getAccount |-> Row({"hasAccount"}, "account"),
     getProfile |-> Row({}, "profile"),
     getBalances |-> Row({}, "balances"),
     getPositions |-> Row({}, "positions"),
     getOrders |-> Row({}, "orders"),
     getOrder |-> Row({}, "order"),
     getHistory |-> Row({}, "history")]

WatchlistCalls ==
    [getWatchlists |-> Row({}, "summaries"),
     getWatchlist |-> Row({"hasId"}, "watchlist"),
     createWatchlist |-> Row({"hasText"}, "watchlist")]

WatchlistUpdates ==
    [updateWatchlist |-> Row({"hasId", "hasText"}, "watchlist"),
     deleteWatchlist |-> Row({"hasId"}, "summaries")]

WatchlistSymbols ==
    [addSymbols |-> Row({"hasId", "hasElements"}, "watchlist"),
     removeSymbol |-> Row({"hasId", "hasSymbol"}, "watchlist")]

buildParams == {"symbol", "quantity", "price", "stop", "option"}

OrderCalls ==
    [placeOrder |-> Row({"account"} \cup buildParams, "placed"),
     cancelOrder |-> Row({"account", "orderId"}, "placed"),
     modifyOrder |-> Row({"account", "orderId"}, "placed"),
     buyStock |-> Row({"account"} \cup (buildParams \ {"stop", "option"}), "placed"),
     sellStock |-> Row({"account"} \cup (buildParams \ {"stop", "option"}), "placed"),
     previewOrder |-> Row({"account"} \cup buildParams, "preview")]

ComplexOrderCalls ==
    [placeBracketOrder |-> Row({"account"}, "placed"),
     placeMultiLegOrder |-> Row({"account", "hasElements"}, "placed"),
     modifyOrderAdvanced |-> Row({"account", "orderId"}, "placed")]

\* The helpers for options leave `symbol' empty, which buildParams() refuses.
OptionOrderCalls ==
    [buyToOpenOption |-> Row({"account", "never"}, "placed"),
     sellToOpenOption |-> Row({"account", "never"}, "placed"),
     buyToCloseOption |-> Row({"account", "never"}, "placed"),
     sellToCloseOption |-> Row({"account", "never"}, "placed"),
     cancelAllOrders |-> Row({"account"}, "cancelled")]

CallTables ==
    {QuoteCalls, OptionCalls, HistoryCalls, LookupCalls, FundamentalsCalls, AccountCalls,
     WatchlistCalls, WatchlistUpdates, WatchlistSymbols, OrderCalls, ComplexOrderCalls,
     OptionOrderCalls}

Calls == [op \in UNION {DOMAIN table : table \in CallTables} |->
             (CHOOSE table \in CallTables : op \in DOMAIN table)[op]]

ASSUME OpsAssumption == Ops \subseteq DOMAIN Calls

-----------------------------------------------------------------------------
(* Answers: one content at the place where the server puts it.             *)

NoMembers == [c \in {} |-> Good]

\* The elements told apart: null, no object, nothing set, all well, and one
\* member of each class not as the reader wants it.
ElementValues ==
    {Null, Odd, Good, Obj(NoMembers), Obj([c \in Classes |-> IF c = "nested" THEN Obj([plain |-> Good])
                                                          ELSE Good])}
    \cup {Obj([plain |-> x]) : x \in {Null, Odd}}
    \cup {Obj([plain |-> Good] @@ [k \in {c} |-> Odd]) : c \in {"checked", "nullable"}}
    \cup {Obj([plain |-> Good, nested |-> Obj([plain |-> Null])])}

Contents == {Absent} \cup ElementValues \cup {Arr(s) : s \in BoundedSeq(ElementValues, MaxItems)}

\* An object with the one member, unless the content is to be missing.
In(key, j) == IF j = Absent THEN Obj(NoMembers) ELSE Obj([k \in {key} |-> j])

In2(outer, inner, j) == In(outer, In(inner, j))

Table(name, j) == Arr(<<In("results", Arr(<<In("tables", In(name, j))>>))>>)

\* The body of an answer with status 2xx whose list, or whose object, is j; for
\* the account's lists as in the tests' fixtures.
Envelope(reader, j) ==
    CASE reader \in {"quotes", "quote"} -> In2("quotes", "quote", j)
      [] reader = "chains" -> In2("options", "option", j)
      [] reader = "strikes" -> In2("strikes", "strike", j)
      [] reader = "expirations" -> In2("expirations", "expiration", j)
      [] reader = "optionSymbols" -> In("symbols", j)
      [] reader = "days" -> In2("history", "day", j)
      [] reader = "sales" -> In2("series", "data", j)
      [] reader = "securities" -> In2("securities", "security", j)
      [] reader = "clock" -> In("clock", j)
      [] reader = "calendar" -> In("calendar", Obj([plain |-> Good, days |-> In("day", j)]))
      [] reader = "company" -> Table("company_profile", j)
      [] reader = "events" -> Table("corporate_calendars", j)
      [] reader = "dividends" -> Table("cash_dividends", j)
      [] reader = "actions" -> Table("stock_splits", j)
      [] reader = "ratios" -> Table("operation_ratios_restate", Arr(<<Null, j>>))
      [] reader = "statements" -> Table("financial_statements_restate",
                                        Obj([plain |-> Good, income_statement |-> Arr(<<j>>)]))
      [] reader = "statistics" -> Table("price_statistics", In("period_1y", j))
      [] reader \in {"account", "profile", "balances", "order"} -> In(reader, j)
      [] reader = "positions" -> In2("positions", "position", j)
      [] reader \in {"orders", "cancelled"} -> In2("orders", "order", j)
      [] reader = "history" -> In2("history", "event", j)
      [] reader = "summaries" -> In2("watchlists", "watchlist", j)
      [] reader = "watchlist" -> In("watchlist", Obj([plain |-> Good, items |-> In("item", j)]))
      [] reader \in {"placed", "preview"} -> In("order", j)

\* An object walked with items() is written as an array, so no object stands there.
Walked == {"actions", "ratios", "statements"}

\* Bodies of an answer: not JSON at all, not an object, or the envelope.
Bodies(reader) ==
    {NotJson, Null, Odd} \cup
    {Envelope(reader, j) : j \in {x \in Contents : reader \in Walked => x.t \notin {"object", "absent"}}}

\* json::parseResponse() and parseResponseSafe(): the reader's result, Thrown
\* standing for std::nullopt.
parseResponse(reader, j) ==
    IF j = NotJson THEN Thrown ELSE
    CASE reader \in {"quotes", "quote"} -> parseQuotes(j)
      [] reader = "chains" -> parseOptionChains(j)
      [] reader = "strikes" -> parseStrikes(j)
      [] reader = "expirations" -> parseExpirations(j)
      [] reader = "optionSymbols" -> parseOptionSymbols(j)
      [] reader = "days" -> parseHistoricalDataList(j)
      [] reader = "sales" -> parseTimeSalesList(j)
      [] reader = "securities" -> parseSecurities(j)
      [] reader = "clock" -> parseMarketClock(j)
      [] reader = "calendar" -> parseMarketCalendar(j)
      [] reader = "company" -> parseCompanyFundamentals(j)
      [] reader = "events" -> parseCorporateCalendar(j)
      [] reader = "dividends" -> parseDividends(j)
      [] reader = "actions" -> parseCorporateActions(j)
      [] reader = "ratios" -> parseFinancialRatios(j)
      [] reader = "statements" -> parseFinancialStatements(j)
      [] reader = "statistics" -> parsePriceStatistics(j)
      [] reader \in {"account", "order"} -> accountObject(j, reader)
      [] reader = "profile" -> profile(j)
      [] reader = "balances" -> balances(j)
      [] reader = "positions" -> parsePositions(AsJson(j))
      [] reader = "orders" -> parseOrders(AsJson(j))
      [] reader = "history" -> historyEvents(j)
      [] reader = "summaries" -> watchlistSummaries(j)
      [] reader = "watchlist" -> watchlist(j)
      [] reader = "placed" -> parseOrderResponse(j)
      [] reader = "preview" -> parseOrderPreview(j)
      [] reader = "cancelled" -> cancelledOrders(j)

-----------------------------------------------------------------------------
(* Results: the categories of ApiResult that tryExecute() tells apart.     *)

Error(kind, status) == [kind |-> kind, status |-> status, head |-> Blank, items |-> <<>>]
Value(head, items) == [kind |-> "value", status |-> 0, head |-> head, items |-> items]

success(status) == status \in 200..299

\* What a call makes of an answer.  getQuote() takes the first of the quotes and
\* reports their absence itself.
Answer(op, status, body) ==
    LET parsed == parseResponse(Calls[op].reader, body) IN
    IF ~success(status) THEN Error("api", status)
    ELSE IF ~parsed.ok THEN Error("internal", 0)
    ELSE IF op # "getQuote" THEN Value(parsed.head, parsed.items)
    ELSE IF parsed.items = <<>> THEN Error("api", 404)
    ELSE Value(parsed.head, <<parsed.items[1]>>)

-----------------------------------------------------------------------------
VARIABLES pc,       \* where the caller is in retryWithBackoff()
          call,     \* the call, whether its arguments pass its checks, maxRetries
          attempt,  \* attempts made
          result,   \* lastResult
          sent,     \* requests handed to the client (history)
          executed, \* times the server carried the request out (history)
          told,     \* what each attempt was told by the server (history)
          got       \* the body of the last answer (history)

vars == <<pc, call, attempt, result, sent, executed, told, got>>

NoCall == [op |-> "none", valid |-> FALSE, maxRetries |-> 0]

Init ==
    /\ pc = "idle"
    /\ call = NoCall
    /\ attempt = 0
    /\ result = Error("internal", 0)   \* "No attempts made"
    /\ sent = 0
    /\ executed = 0
    /\ told = <<>>
    /\ got = NotJson

Valid(op, a) == \A check \in Calls[op].checks : Holds(check, a)

Begin(op) ==
    /\ pc = "idle"
    /\ \E a \in Arguments, n \in RetryCounts :
        /\ call' = [op |-> op, valid |-> Valid(op, a), maxRetries |-> n]
        /\ pc' = IF n > 0 THEN "check" ELSE "done"
    /\ UNCHANGED <<attempt, result, sent, executed, told, got>>

\* Mutant: client errors are tried again.
GoesOnAlways(r) == r.kind # "value" /\ attempt + 1 < call.maxRetries

\* Mutant: one attempt too many.
GoesOnOnceMore(r) ==
    /\ r.kind # "value"
    /\ r.status \notin 400..499
    /\ attempt < call.maxRetries

\* The loop goes on after everything but a success and a 4xx.
GoesOn(r) ==
    /\ r.kind # "value"
    /\ r.status \notin 400..499
    /\ attempt + 1 < call.maxRetries

\* operation() has returned r.
Return(r) ==
    /\ result' = r
    /\ attempt' = attempt + 1
    /\ pc' = IF GoesOn(r) THEN "backoff" ELSE "done"

\* Mutant: the request leaves before the arguments are checked.
CheckAfterSending ==
    /\ pc = "check"
    /\ sent' = sent + 1
    /\ IF call.valid
       THEN pc' = "sent" /\ UNCHANGED <<attempt, result, told>>
       ELSE Return(Error("validation", 0)) /\ told' = Append(told, "nothing")
    /\ UNCHANGED <<call, executed, got>>

\* The checks fail, or the request is handed to the client.
Check ==
    /\ pc = "check"
    /\ IF call.valid
       THEN pc' = "sent" /\ sent' = sent + 1 /\ UNCHANGED <<attempt, result, told>>
       ELSE /\ Return(Error("validation", 0))
            /\ told' = Append(told, "nothing")
            /\ UNCHANGED sent
    /\ UNCHANGED <<call, executed, got>>

Told(status, r) ==
    CASE success(status) -> IF r.kind = "internal" THEN "garbled" ELSE "done"
      [] status \in 400..499 -> "refused"
      [] OTHER -> "failed"

\* The server answers.  It has carried out what it answers with 2xx, nothing of
\* what it refuses with 4xx, and possibly what it answers otherwise.
Answered(status, body) ==
    /\ pc = "sent"
    /\ \E did \in BOOLEAN :
        /\ success(status) => did
        /\ status \in 400..499 => ~did
        /\ executed' = IF did THEN executed + 1 ELSE executed
    /\ LET r == Answer(call.op, status, body) IN
       told' = Append(told, Told(status, r)) /\ Return(r)
    /\ got' = body
    /\ UNCHANGED <<call, sent>>

\* ConnectionError, whether or not the request was carried out.
NoAnswer ==
    /\ pc = "sent"
    /\ \E did \in BOOLEAN : executed' = IF did THEN executed + 1 ELSE executed
    /\ told' = Append(told, "nothing")
    /\ got' = NotJson
    /\ Return(Error("network", 0))
    /\ UNCHANGED <<call, sent>>

BackoffOver ==
    /\ pc = "backoff"
    /\ pc' = "check"
    /\ got' = NotJson
    /\ UNCHANGED <<call, attempt, result, sent, executed, told>>

\* The caller takes the result and makes its next call.
NextCall ==
    /\ pc = "done"
    /\ pc' = "idle" /\ call' = NoCall /\ attempt' = 0 /\ result' = Error("internal", 0)
    /\ sent' = 0 /\ executed' = 0 /\ told' = <<>> /\ got' = NotJson

Receive ==
    /\ pc = "sent"
    /\ \E status \in Statuses :
        \E body \in (IF success(status) THEN Bodies(Calls[call.op].reader) ELSE {NotJson}) :
            Answered(status, body)

Step == Check \/ Receive \/ NoAnswer \/ BackoffOver

Next == (\E op \in Ops : Begin(op)) \/ Step \/ NextCall

Spec == Init /\ [][Next]_vars

-----------------------------------------------------------------------------
Members == [Classes -> {"got", "default"}]
Results == [kind : {"value", "validation", "network", "api", "internal"},
            status : Nat, head : Members, items : Seq(Members)]

\* Type invariant of a call under retryWithBackoff(): never more attempts than
\* maxRetries, at most one request and one effect per attempt.
ServiceTypeOK ==
    /\ pc \in {"idle", "check", "sent", "backoff", "done"}
    /\ call \in [op : Ops \cup {"none"}, valid : BOOLEAN, maxRetries : RetryCounts \cup {0}]
    /\ attempt \in 0..call.maxRetries
    /\ result \in Results
    /\ sent \in 0..attempt + 1
    /\ executed \in 0..sent
    /\ told \in Seq({"done", "garbled", "refused", "failed", "nothing"})
    /\ Len(told) = attempt

\* A request is sent again only while the library is in doubt: no earlier attempt
\* gave a value and none was refused with a 4xx.  An order is carried out twice
\* only when an attempt before the last got no answer, a failure or an answer
\* that could not be read.  A 429 counts as a refusal: ApiError::isRetryable()
\* would repeat it, and retryWithBackoff() does not ask.
RepeatedOnlyInDoubt ==
    \A i \in 1..Len(told) - 1 : told[i] \in {"failed", "garbled", "nothing"}

\* The result tells what became of the call.  A value is returned only for a call
\* the server has carried out and whose last answer said so; a call whose
\* arguments are refused has sent nothing in any of its attempts; a status is
\* the server's last one, but for the 404 that getQuote() makes of an empty
\* list; and a call refused at its only attempt has had no effect.
ResultTellsEffect ==
    pc = "done" =>
        /\ result.kind = "value" => executed > 0 /\ Last(told) = "done"
        /\ result.kind = "validation" => sent = 0
        /\ result.kind = "api" =>
               \/ Last(told) = Told(result.status, result)
               \/ call.op = "getQuote" /\ result.status = 404 /\ Last(told) = "done"
        /\ attempt = 1 /\ told[1] = "refused" => executed = 0

\* The readers that take a list or its only element, with the place of the list.
ListReaders == {"quotes", "chains", "expirations", "days", "sales", "securities", "summaries"}

\* What a list call returns is the list the server sent, complete and in order:
\* one entry per element that is not null, and a member is set exactly when the
\* element has it.  There is no answer with some entries left out.
ListIsComplete ==
    pc = "done" /\ result.kind = "value" /\ Calls[call.op].reader \in ListReaders =>
        \E j \in Contents :
            /\ got = Envelope(Calls[call.op].reader, j) \/ (j = Absent /\ got \in {Null, Odd})
            /\ LET elements == Elements(j) IN
               /\ Len(result.items) = Len(elements)
               /\ \A i \in DOMAIN elements :
                    Calls[call.op].reader # "securities" =>
                        (result.items[i]["plain"] = "got" <=> At(elements[i], "plain") = Good)

\* getPositions() and getOrders() return the list the server sent.
AccountListsArrive ==
    pc = "done" /\ result.kind = "value" /\ call.op \in {"getPositions", "getOrders"} =>
        \A j \in Contents :
            got = Envelope(Calls[call.op].reader, j) => Len(result.items) = Len(Elements(j))

=============================================================================
