---------------------------- MODULE HandlerSteps ----------------------------
(***************************************************************************)
(* The words the request handlers are modelled in.  A handler is a         *)
(* sequence of steps, in the order in which its code makes its checks, its *)
(* calls and its answer; ApiServer says what each kind of step does:       *)
(*                                                                         *)
(*   need    an early return: without `what' the answer is `code';         *)
(*   do      a call that may fail, in which case the answer is `code';     *)
(*   try     a call whose error is dropped: `code' steps are left out;     *)
(*   log     an audit row: LogAction drops the error of its insert;        *)
(*   show    rows read for the answer;                                     *)
(*   panic   a nil pointer or a failed type assertion that some rows or    *)
(*           errors run into: ErrorHandlerMiddleware answers 500;          *)
(*   fork    a branch: the next `code' steps are for the other case;       *)
(*   answer  the answer.                                                   *)
(***************************************************************************)
EXTENDS Naturals, Sequences

Step(kind, what, code) ==
    [kind |-> kind, what |-> what, code |-> code, when |-> "always"]

Need(what, code) == Step("need", what, code)

Do(what, code) == Step("do", what, code)

Attempt(what, n) == Step("try", what, n)

Try(what) == Attempt(what, 0)

Log(action) == Step("log", action, 0)

Show(rows) == Step("show", rows, 0)

MayPanic == Step("panic", "nothing", 500)

\* A panic that every request runs into.
Panics == Step("answer", "nothing", 500)

Fork(n) == Step("fork", "nothing", n)

Answer(code) == Step("answer", "nothing", code)

\* The step is there only in a server, or for a caller, of which `condition' holds.
When(condition, step) == [step EXCEPT !.when = condition]

WithRedis(step) == When("redis", step)

WithoutRedis(step) == When("no-redis", step)

ForAdmin(step) == When("admin", step)

ForOthers(step) == When("not-admin", step)

\* What most handlers begin with: the user and the role the middleware put in
\* the context, the number in the path, the JSON of the body.
NeedUser == Need("user", 401)

NeedAdmin == Need("admin", 403)

NeedId == Need("a-number-in-the-path", 400)

NeedBody == Need("a-JSON-body", 400)
=============================================================================
