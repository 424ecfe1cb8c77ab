--------------------------- MODULE ExceptionTests ---------------------------
(***************************************************************************)
(* The suite exception.ts: Exceptions are Entities that come back as they  *)
(* were made.  A test is named after the line it begins at.  Left out: how *)
(* stacks and messages are formatted.                                      *)
(***************************************************************************)
EXTENDS Programs

\* An Exception's state; its name is its class's.
Fields(name, message, cause) == [name |-> name, message |-> message, cause |-> cause]
HelloFields(name) == Fields(name, "Hello world", "Fizz buzz")
Constructed(state) ==
  <<Session(NoMethods, <<Make("entity", "exception", state), Holds("exception", state)>>)>>
ExtendedWith(v) == [customProp |-> v] @@ Fields("CustomException", "Fizz Buzz", "Hello world")
AcrossSessions(steps, state) ==
  Across(steps \o <<Make("entity", "exception", state)>>, "exception", <<Holds("exception", state)>>)

Exceptions ==
  "exception:23" :> Constructed(Fields("Exception", "", Undefined))
    @@ "exception:41" :> Constructed(HelloFields("Exception"))
    @@ "exception:63" :>
           <<Session(NoMethods,
                     <<Make("entity", "exception", ExtendedWith("1234")),
                       Holds("exception", ExtendedWith("1234")),
                       Put("exception", "customProp", "4321"),
                       Holds("exception", ExtendedWith("4321"))>>)>>

ExceptionAcross ==
  "exception:174" :> AcrossSessions(<<>>, HelloFields("Exception"))

TypeExceptions ==
  "exception:348" :> Constructed(HelloFields("TypeException"))
    @@ "exception:370" :> Constructed(ExtendedWith("1"))
    @@ "exception:421" :> AcrossSessions(<<>>, HelloFields("TypeException"))

WithErrors(state) == [errors |-> "errors"] @@ state
ConstructedWithErrors(state) ==
  <<Session(NoMethods, <<MakeList("errors", <<>>), Make("entity", "exception", WithErrors(state)),
                         Holds("exception", WithErrors(state))>>)>>

AggregateExceptions ==
  "exception:491" :> ConstructedWithErrors(HelloFields("AggregateException"))
    @@ "exception:521" :> ConstructedWithErrors(ExtendedWith("1"))

AggregateExceptionAcrossSessions ==
  "exception:578" :>
      AcrossSessions(<<MakeList("errors", <<>>)>>, WithErrors(HelloFields("AggregateException")))

SerializableExceptions ==
  "exception:671" :> Constructed(HelloFields("SerializableException"))
    @@ "exception:697" :> Constructed(ExtendedWith("1"))
    @@ "exception:751" :> AcrossSessions(<<>>, HelloFields("SerializableException"))

ExceptionSuite ==
  Exceptions @@ ExceptionAcross @@ TypeExceptions @@ AggregateExceptions @@
    AggregateExceptionAcrossSessions @@ SerializableExceptions
=============================================================================
