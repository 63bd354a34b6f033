---------------------------- MODULE QueryHandler ----------------------------
(***************************************************************************)
(* The query handlers (handlers/queryHandler.go and its copy for gorm,      *)
(* ormQueryHandler.go): one value serves every request, with a cache of     *)
(* rows that its copies share.  Rows come from libQuery.GetQuery.           *)
(*                                                                         *)
(* HandlersSpec is a version 1 handler of some kind: any code (V1Handler),  *)
(* the DML handler (DmlHandler) or this one, whose steps between those of   *)
(* V1Handler are the steps of Handler.                                      *)
(***************************************************************************)
EXTENDS DmlHandler, Integers

CONSTANTS
  Kinds,        (* Of "plain", "dml" and "query".                          *)
  Settings,     (* The settings of the handler, see SettingType.           *)
  Inputs,       (* What each request may ask for: arguments and a page.    *)
  Format,       (* What CacheKey makes of arguments: %v of all of them.    *)
  MaxClock,     (* Bound of the clock.                                     *)
  RowCount,     (* The rows the database has for any arguments, by time.   *)
  CacheMaxAge

(* since: the application sets CacheTime itself (no constructor does);       *)
(* paged: a PaginateCommand in a mode with pagination; translator: the       *)
(* first row, all of them, or code that calls Paginate.                      *)
SettingType == [cache : BOOLEAN, since : BOOLEAN, paged : BOOLEAN,
                translator : {"single", "all", "paginate"}]
Times == 0 .. MaxClock
AllInputs == UNION {Inputs[r] : r \in Requests}
PageType == [start : Int, end : Int, sort : BOOLEAN, dsc : BOOLEAN]

ASSUME QueryAssumption ==
  /\ Kinds \subseteq {"plain", "dml", "query"}
  /\ Settings \subseteq SettingType
  /\ \A i \in AllInputs : i.args \in DOMAIN Format /\ i.page \in PageType
  /\ MaxClock \in Nat /\ RowCount \in [Times -> Nat]
  /\ CacheMaxAge \in Nat
  /\ {"invalid", "fault"} \subseteq ErrorNames

VARIABLES
  kind, setting, input,  (* Never change.                                  *)
  clock,    (* Time, and with it the contents of the database.             *)
  heap,     (* The slices of rows that queries returned.                   *)
  cache,    (* CacheData: for each key an index of heap, 0 for none.       *)
  access,   (* The access of each request to the map that is under way.    *)
  fatal,    (* The runtime has seen two accesses at a time and has ended    *)
            (* the process.                                                *)
  step,     (* Where in Handler each request is.                           *)
  slice,    (* The rows it has: an index of heap.                          *)
  asked,    (* History: when its Handler was called.                       *)
  got       (* What was answered.                                          *)

queryVars == <<kind, setting, input, clock, heap, cache, access, fatal, step, slice, asked, got>>
allVars == <<vars, dmlVars, queryVars>>

Orders == {"db", "sorted"} \X BOOLEAN  (* ... and whether reversed.         *)
RowsType == [args : DOMAIN Format, page : {i.page : i \in AllInputs}, at : Times, stored : Times,
             order : Orders, torn : BOOLEAN]
Nothing == [from |-> 0, to |-> 0]

QueryTypeOK ==
  /\ kind \in Kinds /\ setting \in Settings /\ (\A r \in Requests : input[r] \in Inputs[r]) /\ clock \in Times
  /\ heap \in Seq(RowsType)
  /\ cache \in [{Format[a] : a \in DOMAIN Format} -> 0 .. Len(heap)]
  /\ access \in [Requests -> {"no", "read", "write"}]
  /\ fatal \in BOOLEAN
  /\ step \in [Requests -> {"args", "lookup", "expire", "query", "store", "translate", "paginate"}]
  /\ slice \in [Requests -> 0 .. Len(heap)]
  /\ asked \in [Requests -> Times]

(* DmlHandlerType.Parameters and QueryHandlerType.Parameters.                *)
Parameters == [persist |-> FALSE, receipt |-> FALSE, file |-> FALSE, recovery |-> FALSE,
               simulation |-> FALSE, unique |-> FALSE]

HandlersInit ==
  /\ DmlInit
  /\ kind \in Kinds
  /\ CASE kind = "plain" -> TRUE
       [] kind = "dml" -> conf = Parameters
       [] kind = "query" -> [conf EXCEPT !.simulation = FALSE, !.recovery = FALSE] = Parameters
  /\ setting \in Settings
  /\ input \in {f \in [Requests -> AllInputs] : \A r \in Requests : f[r] \in Inputs[r]}
  /\ kind # "query" => setting = CHOOSE s \in Settings : TRUE
  /\ kind # "query" => \A r \in Requests : input[r] = CHOOSE i \in Inputs[r] : TRUE
  /\ kind # "dml" => ~cancels
  /\ clock = 0 /\ heap = <<>> /\ fatal = FALSE
  /\ cache = [k \in {Format[a] : a \in DOMAIN Format} |-> 0]
  /\ access = [r \in Requests |-> "no"]
  /\ step = [r \in Requests |-> "args"]
  /\ slice = [r \in Requests |-> 0]
  /\ asked = [r \in Requests |-> 0]
  /\ got = [r \in Requests |-> Nothing]

(* Somebody changes the database.                                           *)
Tick ==
  /\ kind = "query" /\ clock + 1 \in Times
  /\ clock' = clock + 1
  /\ UNCHANGED <<vars, dmlVars, kind, setting, input, heap, cache, access, fatal, step, slice, asked, got>>

-----------------------------------------------------------------------------
(* Handler.                                                                 *)

At(r, s) == pc[r] = "handle" /\ step[r] = s
To(r, s) == step' = [step EXCEPT ![r] = s]

Still == UNCHANGED <<dmlVars, kind, setting, input, clock>>
(* The steps that leave V1Handler alone.                                    *)
Inner == UNCHANGED vars /\ Still

Fails(r, e) ==
  /\ FailToHandle(r) /\ outcome'[r].err = e
  /\ Still /\ UNCHANGED <<heap, cache, access, fatal, step, slice, asked, got>>

(* GetFormTagValue for every argument of the command.                        *)
GetArguments(r) ==
  /\ At(r, "args")
  /\ To(r, IF setting.cache THEN "lookup" ELSE "query")
  /\ asked' = [asked EXCEPT ![r] = clock]
  /\ Inner /\ UNCHANGED <<heap, cache, access, fatal, slice, got>>

ArgumentMissing(r) == At(r, "args") /\ Fails(r, "fault")

(* Mutant: the key is only the title.                                        *)
CacheKeyTitle(args) == CHOOSE k \in {Format[a] : a \in DOMAIN Format} : TRUE

CacheKey(args) == Format[args]

(* The map has no lock.  The runtime may notice an access that meets a       *)
(* write, and then nothing can recover.                                      *)
AccessOf == [lookup |-> "read", expire |-> "write", store |-> "write"]

Touch(r) ==
  /\ pc[r] = "handle" /\ step[r] \in DOMAIN AccessOf /\ access[r] = "no"
  /\ LET mode == AccessOf[step[r]]
         meets == \E q \in Requests : access[q] = "write" \/ (mode = "write" /\ access[q] = "read")
     IN  access' = [access EXCEPT ![r] = mode] /\ fatal' \in {FALSE, meets}
  /\ Inner /\ UNCHANGED <<heap, cache, step, slice, asked, got>>

Touched(r, s) == At(r, s) /\ access[r] # "no" /\ access' = [access EXCEPT ![r] = "no"]

(* CacheTime is the zero time, which is before any age, or what the         *)
(* application has set: CacheResult sets the field of a copy.               *)
OldEnough == IF setting.since THEN 0 + CacheMaxAge < clock ELSE TRUE

CheckCache(r) ==
  /\ Touched(r, "lookup")
  /\ LET entry == cache[CacheKey(input[r].args)]
     IN  IF entry # 0 /\ OldEnough
           THEN To(r, "translate") /\ slice' = [slice EXCEPT ![r] = entry]
           ELSE To(r, IF entry = 0 THEN "query" ELSE "expire") /\ UNCHANGED slice
  /\ Inner /\ UNCHANGED <<heap, cache, fatal, asked, got>>

Delete(r) ==
  /\ Touched(r, "expire") /\ To(r, "query")
  /\ cache' = [cache EXCEPT ![CacheKey(input[r].args)] = 0]
  /\ Inner /\ UNCHANGED <<heap, fatal, slice, asked, got>>

(* GetQuery: rows, or the error NoDataFound when there is none.  OnEmpty200  *)
(* changes nothing: response.Unwrap does not know GetQuery's errors.         *)
QueryToStruct(r) ==
  /\ At(r, "query") /\ InUse < MaxConns /\ RowCount[clock] > 0
  /\ heap' = Append(heap, [args |-> input[r].args, page |-> input[r].page, at |-> clock,
                           stored |-> clock, order |-> <<"db", FALSE>>, torn |-> FALSE])
  /\ slice' = [slice EXCEPT ![r] = Len(heap')]
  /\ To(r, IF setting.cache THEN "store" ELSE "translate")
  /\ Inner /\ UNCHANGED <<cache, access, fatal, asked, got>>

NoDataFound(r) == At(r, "query") /\ InUse < MaxConns /\ RowCount[clock] = 0 /\ Fails(r, "invalid")
DBReadError(r) == At(r, "query") /\ InUse < MaxConns /\ Fails(r, "fault")

CacheResult(r) ==
  /\ Touched(r, "store") /\ To(r, "translate")
  /\ cache' = [cache EXCEPT ![CacheKey(input[r].args)] = slice[r]]
  /\ heap' = [heap EXCEPT ![slice[r]].stored = clock]
  /\ Inner /\ UNCHANGED <<fatal, slice, asked, got>>

Rows(r) == heap[slice[r]]
Arranging(r) == {q \in Requests \ {r} : At(q, "paginate") /\ slice[q] = slice[r]}

(* The rows an answer has of a slice; torn when another request was moving   *)
(* them.                                                                    *)
Answered(r, from, to) ==
  \E torn \in {FALSE, Arranging(r) # {}} :
    got' = [got EXCEPT ![r] = [from |-> from, to |-> to, rows |-> [Rows(r) EXCEPT !.torn = @ \/ torn]]]

(* QuerySingleTransformer and QueryAllTransformer; a translator that calls   *)
(* Paginate goes on there.                                                   *)
Translate(r) ==
  /\ At(r, "translate")
  /\ LET count == RowCount[Rows(r).at]
     IN  IF setting.translator = "paginate" THEN To(r, "paginate") /\ UNCHANGED <<vars, got>>
         ELSE /\ Handle(r) /\ UNCHANGED step
              /\ Answered(r, 0, IF setting.translator = "single" THEN 1 ELSE count)
  /\ Still /\ UNCHANGED <<heap, cache, access, fatal, slice, asked>>

Larger(a, b) == IF a > b THEN a ELSE b
Smaller(a, b) == IF a < b THEN a ELSE b

(* Mutant: the end is not cut to the rows there are.                         *)
PageUncut(page, count) ==
  LET start == Larger(page.start, 0)
      end == Larger(page.end, start)
  IN  <<start, IF end = start /\ start = 0 /\ count > 1 THEN count ELSE end>>

(* The bounds of Paginate: no page means all, if there are two rows or more. *)
Page(page, count) ==
  LET start == Larger(page.start, 0)
      end == Larger(page.end, start)
  IN  <<start, Smaller(IF end = start /\ start = 0 /\ count > 1 THEN count ELSE end, count)>>

Arranged(order, page) ==
  LET sorted == IF page.sort THEN <<"sorted", FALSE>> ELSE order
  IN  <<sorted[1], sorted[2] # page.dsc>>

(* Paginate sorts and reverses the slice it was given, which may be the one  *)
(* in the cache, and then cuts the page from it; a page that starts behind   *)
(* the last row panics, with an error of the runtime.                        *)
Paginate(r) ==
  /\ At(r, "paginate")
  /\ \E torn \in {FALSE, Arranging(r) # {}} :
       heap' = [heap EXCEPT ![slice[r]].order = Arranged(@, input[r].page), ![slice[r]].torn = @ \/ torn]
  /\ LET page == Page(input[r].page, RowCount[Rows(r).at])
     IN  IF page[1] > page[2] THEN UserPanics(r) /\ outcome'[r].err = Panicked /\ UNCHANGED got
         ELSE Handle(r) /\ got' = [got EXCEPT ![r] = [from |-> page[1], to |-> page[2], rows |-> heap'[slice[r]]]]
  /\ Still /\ UNCHANGED <<cache, access, fatal, step, slice, asked>>

(* The body is encoded only now.                                            *)
QueryAnswer(r) ==
  /\ Answer(r)
  /\ IF slice[r] = 0 \/ setting.translator = "single" THEN UNCHANGED got
     ELSE Answered(r, got[r].from, got[r].to)
  /\ Still /\ UNCHANGED <<heap, cache, access, fatal, step, slice, asked>>

(* The rest of the request; Initializer and Finalizer do nothing.            *)
QueryPhase(r) ==
  /\ Parse(r) \/ FailToParse(r) \/ Simulate(r) \/ Initialize(r) \/ Finalize(r) \/ Update(r) \/ Reraise(r)
  /\ Still /\ UNCHANGED <<heap, cache, access, fatal, step, slice, asked, got>>

QueryStep(r) ==
  \/ GetArguments(r) \/ ArgumentMissing(r)
  \/ Touch(r) \/ CheckCache(r) \/ Delete(r) \/ CacheResult(r)
  \/ QueryToStruct(r) \/ NoDataFound(r) \/ DBReadError(r)
  \/ Translate(r) \/ Paginate(r)
  \/ QueryAnswer(r) \/ QueryPhase(r)

-----------------------------------------------------------------------------
HandlerStep(r) ==
  /\ ~fatal
  /\ \/ kind = "plain" /\ RequestStep(r) /\ UNCHANGED <<dmlVars, queryVars>>
     \/ kind = "dml" /\ DmlStep(r) /\ UNCHANGED queryVars
     \/ kind = "query" /\ QueryStep(r)

HandlersNext == (\E r \in Requests : HandlerStep(r)) \/ (~fatal /\ Tick)

HandlersSpec == HandlersInit /\ [][HandlersNext]_allVars

(* Every goroutine goes on as long as it is not waiting for a connection.    *)
HandlersFairSpec == HandlersSpec /\ \A r \in Requests : WF_allVars(HandlerStep(r))

-----------------------------------------------------------------------------
(* Properties.                                                              *)

(* Every command of a DML handler has a transaction of its own, so the       *)
(* commands of one request must have run in order and none after a failure.  *)
DmlInOrder == kind = "dml" => CommandsInOrder

(* What a query may be answered with: rows the database had, for arguments   *)
(* with the request's key, and those of them that its page says: all when it  *)
(* ends before the first row, as a page that was not asked for does, but a   *)
(* single row is then left out (queryHandler.go:165-167).  Without a cache    *)
(* they are of a time since the request came, for its own arguments and      *)
(* page, in the order it asked for and never torn; with one only the key is  *)
(* sure (queryHandler.go:205-226), not the page nor the order.  An error     *)
(* NoDataFound means that there was none since the request came, and only a  *)
(* page behind the rows makes Paginate panic (line 178).                     *)
QueryAnswers ==
  \A r \in Requests :
    LET rows_ == got[r].rows
        own == input[r]
        count == RowCount[rows_.at]
    IN  kind = "query" /\ r \in handled =>
          /\ respSent[r] =>
               /\ count > 0 /\ Format[rows_.args] = Format[own.args]
               /\ got[r].from <= got[r].to /\ got[r].to <= count
               /\ setting.translator = "paginate" =>
                    LET all == own.page.start <= 0 /\ own.page.end <= 0 /\ count > 1
                    IN  {i \in 0 .. count - 1 : got[r].from <= i /\ i < got[r].to}
                          = {i \in 0 .. count - 1 : all \/ (own.page.start <= i /\ i < own.page.end)}
               /\ ~setting.cache =>
                    /\ rows_.at >= asked[r] /\ ~rows_.torn
                    /\ rows_.args = own.args /\ rows_.page = own.page
                    /\ setting.translator = "paginate" =>
                         rows_.order = Arranged(<<"db", FALSE>>, own.page)
          /\ outcome[r].err = "invalid" => \E t \in asked[r] .. clock : RowCount[t] = 0
          /\ r \in panic /\ answers[r] = <<>> => own.page.start > RowCount[Rows(r).at]

(* A handler of any kind ends every request, unless leaked transactions hold *)
(* every connection or the process has died of the unlocked cache.           *)
HandlersEnd ==
  <>(fatal \/ Cardinality(leaked) = MaxConns \/ \A r \in Requests : pc[r] \in Ended)

(* CheckCache "returns cached rows for the given arguments if still valid"   *)
(* (queryHandler.go:209): never rows stored longer than CacheMaxAge before    *)
(* the request.                                                             *)
CacheHonoursAge ==
  \A r \in Requests :
    kind = "query" /\ respSent[r] /\ r \in handled => asked[r] <= got[r].rows.stored + CacheMaxAge
=============================================================================
