-------------------------------- MODULE Json --------------------------------
(***************************************************************************)
(* What the readers of src/json/*.cpp and src/common/json_utils_base.cpp   *)
(* make of a JSON document, as operators without state.                    *)
(*                                                                         *)
(* A document is a tree of tagged records.  The members of an object are   *)
(* reduced to one per way of reading it: "plain" stands for every member   *)
(* taken with json.value(key, default), "checked" for those whose presence *)
(* and type are tested first, "nullable" for those tested for null only,   *)
(* "nested" for an inner object with a reader of its own.  Good is a value *)
(* of the type the reader asks for, Odd one of another type.               *)
(*                                                                         *)
(* A reader returns Thrown or what it read: the members of the answer's    *)
(* own object (head) and those of its items, each "got" from the document  *)
(* or left at its "default".                                               *)
(***************************************************************************)
EXTENDS Naturals, Sequences, SequencesExt

Null == [t |-> "null"]
Absent == [t |-> "absent"]
Good == [t |-> "good"]
Odd == [t |-> "odd"]
NotJson == [t |-> "text"]   \* a body that nlohmann::json::parse() refuses
Arr(s) == [t |-> "array", a |-> s]
Obj(f) == [t |-> "object", f |-> f]

Classes == {"plain", "checked", "nullable", "nested"}

\* json[key] behind json.contains(key), which is FALSE of anything but an object.
At(j, key) == IF j.t = "object" /\ key \in DOMAIN j.f THEN j.f[key] ELSE Absent

\* The chain of contains() and is_null() tests that leads to the inner value.
Path(j, outer, inner) == At(At(j, outer), inner)

-----------------------------------------------------------------------------
(* Members.                                                                *)

\* json.value(key, default): only a missing key gives the default; null or a
\* value of another type is a type_error, and so is any key of a non-object.
Plain(j, key) ==
    LET x == At(j, key) IN
    IF j.t # "object" THEN "throw"
    ELSE CASE x = Absent -> "default" [] x = Good -> "got" [] OTHER -> "throw"

\* contains(key) && !is_null() && is_number() or is_string().
Checked(j, key) == IF At(j, key) = Good THEN "got" ELSE "default"

\* contains(key) && !is_null(), then json.value(key, default).
Nullable(j, key) == IF At(j, key) = Null THEN "default" ELSE Plain(j, key)

\* parseGreeks() or parseSessionTime() of a member that is not null: anything
\* but an object gives a default object.
Nested(j, key) ==
    LET x == At(j, key) IN IF x.t = "object" THEN Plain(x, "plain") ELSE "default"

Member(class, j) ==
    CASE class = "plain" -> Plain(j, class)
      [] class = "checked" -> Checked(j, class)
      [] class = "nullable" -> Nullable(j, class)
      [] class = "nested" -> Nested(j, class)

\* The members a reader takes from one object, the others at their defaults.
Take(classes, j) == [c \in Classes |-> IF c \in classes THEN Member(c, j) ELSE "default"]

Blank == [c \in Classes |-> "default"]

\* if (!json.is_null() && json.is_object()): anything else is a default object.
TakeIfObject(classes, j) == IF j.t = "object" THEN Take(classes, j) ELSE Blank

-----------------------------------------------------------------------------
(* Whole answers.                                                          *)

Thrown == [ok |-> FALSE, head |-> Blank, items |-> <<>>]

\* What was read, unless reading one of the members threw.
Read(head, items) ==
    IF \E c \in Classes : head[c] = "throw" \/ \E i \in DOMAIN items : items[i][c] = "throw"
    THEN Thrown
    ELSE [ok |-> TRUE, head |-> head, items |-> items]

\* The elements of s at the positions in at, in their order: the n-th of them is
\* at the position up to which there are n.
Picked(s, at) ==
    LET nth(n) == CHOOSE i \in at : Cardinality({k \in at : k <= i}) = n
    IN  [n \in 1..Cardinality(at) |-> s[nth(n)]]

NotNull(s) == Picked(s, {i \in DOMAIN s : s[i] # Null})

\* An array's elements without the nulls, an object as the only element, and
\* nothing for any other value.
Elements(j) ==
    CASE j.t = "array" -> NotNull(j.a)
      [] j.t = "object" -> <<j>>
      [] OTHER -> <<>>

\* Mutant: an element that cannot be read is left out, as parseAccounts() does.
ListLenient(j, classes) ==
    LET readable(x) == \A c \in Classes : TakeIfObject(classes, x)[c] # "throw"
        s == SelectSeq(Elements(j), readable)
    IN  Read(Blank, [i \in DOMAIN s |-> TakeIfObject(classes, s[i])])

List(j, classes) ==
    LET s == Elements(j) IN Read(Blank, [i \in DOMAIN s |-> TakeIfObject(classes, s[i])])

\* market.cpp
parseQuotes(j) == List(Path(j, "quotes", "quote"), {"plain", "checked", "nullable", "nested"})
parseOptionChains(j) == List(Path(j, "options", "option"), {"plain", "checked", "nested"})
parseExpirations(j) == List(Path(j, "expirations", "expiration"), {"plain", "checked"})
parseHistoricalDataList(j) == List(Path(j, "history", "day"), {"plain"})
parseTimeSalesList(j) == List(Path(j, "series", "data"), {"plain"})
parseSecurities(j) == List(Path(j, "securities", "security"), {"checked"})

\* Only an array will do here.
parseOptionSymbols(j) ==
    LET s == At(j, "symbols") IN
    IF s.t = "array" THEN List(s, {"plain", "checked"}) ELSE Read(Blank, <<>>)

\* The numbers among the elements, or the number that stands alone.
parseStrikes(j) ==
    LET s == Path(j, "strikes", "strike")
        numbers == CASE s.t = "array" -> Picked(s.a, {i \in DOMAIN s.a : s.a[i] = Good})
                     [] s = Good -> <<s>>
                     [] OTHER -> <<>>
    IN  Read(Blank, [i \in DOMAIN numbers |-> [Blank EXCEPT !["plain"] = "got"]])

\* A calendar or a clock that is there is not tested to be an object.
parseMarketCalendar(j) ==
    LET cal == At(j, "calendar")
        days == Elements(Path(cal, "days", "day"))
    IN  IF cal \in {Absent, Null} THEN Read(Blank, <<>>)
        ELSE Read(Take({"plain"}, cal),
                  [i \in DOMAIN days |-> TakeIfObject({"plain", "nested"}, days[i])])

parseMarketClock(j) ==
    LET clock == At(j, "clock") IN
    IF clock \in {Absent, Null} THEN Read(Blank, <<>>) ELSE Read(Take({"plain"}, clock), <<>>)

-----------------------------------------------------------------------------
(* Fundamentals: the tables of the first result of the first answer.  An   *)
(* object that is walked with items() is written as the array of its       *)
(* values, the keys being dates that nothing reads.                        *)

First(j) == IF j.t = "array" /\ j.a # <<>> THEN j.a[1] ELSE Absent
Tables(j) == At(First(At(First(j), "results")), "tables")
Present(j) == j \notin {Absent, Null}

\* The members of a table that is there, which is not tested to be an object.
Part(j) == IF Present(j) THEN Plain(j, "plain") ELSE "default"

parseCompanyFundamentals(j) ==
    LET profile == At(Tables(j), "company_profile")
        description == At(Tables(j), "long_descriptions")
    IN  Read([plain |-> Part(profile),
              nested |-> Part(At(profile, "headquarter")),
              checked |-> Part(At(Tables(j), "asset_classification")),
              nullable |-> CASE ~Present(description) -> "default"
                             [] description = Good -> "got"
                             [] OTHER -> "throw"], <<>>)

\* What items() walks: a value that is no container is its own only element.
Walk(j) ==
    CASE j.t = "array" -> NotNull(j.a)
      [] ~Present(j) -> <<>>
      [] OTHER -> <<j>>

\* Rows must be objects, which is not tested.
Rows(s) == [i \in DOMAIN s |-> Take({"plain"}, s[i])]
ArrayRows(j) == IF j.t = "array" THEN Rows(Walk(j)) ELSE <<>>

parseCorporateCalendar(j) == Read(Blank, ArrayRows(At(Tables(j), "corporate_calendars")))
parseDividends(j) == Read(Blank, ArrayRows(At(Tables(j), "cash_dividends")))

\* json[0]["results"] is walked without a test; an answer without that key is
\* undefined behaviour and is not among the documents considered.
parseCorporateActions(j) ==
    LET all == Walk(At(First(j), "results"))
        results == Picked(all, {i \in DOMAIN all : Present(At(all[i], "tables"))})
        splits(r) == Rows(Walk(Path(r, "tables", "stock_splits")))
        mergers == [i \in DOMAIN results |->
                       Part(Path(results[i], "tables", "mergers_and_acquisitions"))]
    IN  Read([Blank EXCEPT !["nested"] =
                 IF \E i \in DOMAIN mergers : mergers[i] = "throw" THEN "throw"
                 ELSE IF \E i \in DOMAIN mergers : mergers[i] = "got" THEN "got" ELSE "default"],
             FlattenSeq([i \in DOMAIN results |-> splits(results[i])]))

\* Groups of periods, one row per period.
parseFinancialRatios(j) ==
    LET t == At(Tables(j), "operation_ratios_restate")
        groups == IF t.t = "array" THEN Walk(t) ELSE <<>>
    IN  Read(Blank, FlattenSeq([i \in DOMAIN groups |-> Rows(Walk(groups[i]))]))

\* The first period of the first income statement.
parseFinancialStatements(j) ==
    LET statements == At(Tables(j), "financial_statements_restate")
        rows == Walk(First(At(statements, "income_statement")))
    IN  IF rows = <<>> THEN Read(Blank, <<>>)
        ELSE Read([Blank EXCEPT !["plain"] = Plain(statements, "plain"),
                                !["nested"] = Plain(rows[1], "plain")], <<>>)

parsePriceStatistics(j) ==
    Read([Blank EXCEPT !["plain"] = Part(Path(Tables(j), "price_statistics", "period_1y"))],
         <<>>)

-----------------------------------------------------------------------------
(* Orders, watchlists and accounts.                                        *)

OrderMembers(j) == TakeIfObject({"plain", "checked"}, At(j, "order"))
parseOrderResponse(j) == Read(OrderMembers(j), <<>>)
parseOrderPreview(j) == Read(TakeIfObject({"plain"}, At(j, "order")), <<>>)

\* Every element goes through parseOrderResponse(), which looks for an "order"
\* inside it.
cancelledOrders(j) ==
    LET x == Path(j, "orders", "order")
        s == CASE x.t = "array" -> x.a [] x.t = "object" -> <<x>> [] OTHER -> <<>>
    IN  Read(Blank, [i \in DOMAIN s |-> OrderMembers(s[i])])

\* The elements are neither tested for null nor to be objects.
Unguarded(j) ==
    Rows(CASE j.t = "array" -> j.a [] j.t = "object" -> <<j>> [] OTHER -> <<>>)

watchlistSummaries(j) == Read(Blank, Unguarded(Path(j, "watchlists", "watchlist")))

watchlist(j) ==
    LET w == At(j, "watchlist") IN
    IF w = Absent THEN Thrown ELSE Read(Take({"plain"}, w), Unguarded(Path(w, "items", "item")))

\* A SafeJsonParser given to a reader of nlohmann::json becomes, by its operator
\* std::string, a JSON string: whatever it held, not an object.
AsJson(parser) == Odd

parseAccount(j) == TakeIfObject({"plain", "checked"}, j)
parsePositions(j) == List(At(j, "position"), {"plain", "checked"})
parseOrders(j) == List(At(j, "order"), {"plain", "checked"})

\* The members of the one object under key, read by parseAccount() or parseOrder().
accountObject(j, key) ==
    IF At(j, key) = Absent THEN Thrown ELSE Read(parseAccount(AsJson(At(j, key))), <<>>)

parseAccountProfile(j) ==
    LET accounts == IF j.t = "object" THEN Elements(At(j, "account")) ELSE <<>>
    IN  Read(TakeIfObject({"plain"}, j),
             [i \in DOMAIN accounts |-> parseAccount(accounts[i])])

profile(j) == IF At(j, "profile") = Absent THEN Thrown
              ELSE parseAccountProfile(AsJson(At(j, "profile")))

\* SafeJsonParser::value() never throws.  Its texts are not read at all:
\* value(key, "") is the overload for bool.
balances(j) ==
    LET b == At(j, "balances") IN
    IF b = Absent THEN Thrown ELSE Read([Blank EXCEPT !["plain"] = Checked(b, "plain")], <<>>)

\* The elements of an array are read as they are, a single event by SafeJsonParser.
historyEvents(j) ==
    LET e == Path(j, "history", "event") IN
    IF e.t = "object" THEN Read(Blank, <<[Blank EXCEPT !["plain"] = Checked(e, "plain")]>>)
    ELSE Read(Blank, Unguarded(e))

=============================================================================
