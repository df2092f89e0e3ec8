--------------------------------- MODULE Copy ---------------------------------
(***************************************************************************)
(* Recommendation copy (internal/recommendation/copy.go): the template, the *)
(* optional text of a language model, and the validation both must pass.    *)
(*                                                                          *)
(* A text is its length in runes and the one number it may contain, with    *)
(* the position of its first digit: what truncation, factToken and          *)
(* numericTokens tell apart.  An output is what ValidateCopyOutput asks of  *)
(* it: whether its lengths and tone fit, which of the tokens of the offer   *)
(* and the discount occur in it, and which numbers it contains.  Numbers    *)
(* are written without leading zeros.                                       *)
(***************************************************************************)
EXTENDS Integers

CONSTANTS
    NoNumber,    \* the text has no digits
    Invented     \* a number that no fact contains

(* Numbers have at most the 19 digits of an int64.                          *)
MaxDigits == 19
Numbers == {n \in Nat : \E k \in 1..MaxDigits : n < 10^k}

Texts == [len : Nat, at : Nat, number : Numbers \cup {NoNumber}]
Facts == [station : Texts, offer : Texts, discount : Texts, cost : Numbers, labels : Nat]
TextFacts == {"offer", "discount"}

Digits(n) == CHOOSE k \in 1..MaxDigits : n < 10^k /\ \A j \in 1..(k - 1) : ~(n < 10^j)

(* The first k digits of a number.                                          *)
Prefix(n, k) == n \div 10^(Digits(n) - k)

(* strings.Contains on two numbers: m is n or ends some prefix of it.       *)
DigitsContain(n, m) ==
    m = n \/ \E k \in Digits(m)..Digits(n) : Prefix(n, k) % 10^Digits(m) = m

truncateRunes(text, limit) ==
    IF text.len <= limit THEN text
    ELSE [len |-> limit, at |-> text.at,
          number |-> IF text.number = NoNumber \/ text.at > limit THEN NoNumber
                     ELSE IF text.at + Digits(text.number) - 1 <= limit THEN text.number
                     ELSE Prefix(text.number, limit - text.at + 1)]

(* The length of the part of a fact that an output has to repeat.           *)
factToken(text) == IF text.len > 20 THEN 20 ELSE text.len

numericTokens(text) == IF text.number = NoNumber THEN {} ELSE {text.number}

ValidateCopyFacts(facts) ==
    /\ facts.station.len \in 1..80
    /\ facts.offer.len \in 1..120
    /\ facts.discount.len \in 1..160
    /\ facts.cost >= 0
    /\ facts.labels \in 1..3

(* The numbers an output may contain.                                       *)
Allowed(facts) == numericTokens(facts.offer) \cup numericTokens(facts.discount) \cup {facts.cost}

(* The cost is found also inside a longer number.                           *)
ValidateCopyOutput(facts, output) ==
    /\ ValidateCopyFacts(facts)
    /\ output.fits
    /\ output.mentions = TextFacts
    /\ \E n \in output.numbers : DigitsContain(n, facts.cost)
    /\ output.numbers \subseteq Allowed(facts)

-----------------------------------------------------------------------------
(* TemplateCopy: the title is the offer's name, the body "<station>:        *)
(* <discount>, use <cost> points. Reasons: <labels>".  Four runes stand      *)
(* between the discount and the cost, and the labels come last: the cost is  *)
(* there whole when it ends before the cut at 140 runes.                     *)
Template(facts) ==
    LET station == truncateRunes(facts.station, 20)
        discount == truncateRunes(facts.discount, 80)
        title == truncateRunes(facts.offer, 40)
        costEnd == station.len + 1 + discount.len + 4 + Digits(facts.cost)
    IN  [fits |-> title.len > 0,
         mentions |-> (IF title.len >= factToken(facts.offer) THEN {"offer"} ELSE {})
                 \cup (IF /\ discount.len >= factToken(facts.discount)
                          /\ station.len + 1 + factToken(facts.discount) <= 140
                       THEN {"discount"} ELSE {}),
         numbers |-> numericTokens(title) \cup numericTokens(station)
                     \cup numericTokens(discount) \cup (IF costEnd <= 140 THEN {facts.cost} ELSE {})]

(* TemplateCopy returns no error.                                           *)
TemplateOK(facts) == ValidateCopyFacts(facts) /\ ValidateCopyOutput(facts, Template(facts))

(* What a copy generator may do within its deadline: fail in any of the ways *)
(* of NewHTTPCopyGenerator (Failed), or return an output that is right or    *)
(* wrong in one respect.                                                     *)
Failed == [fits |-> FALSE, mentions |-> {}, numbers |-> {}]
GeneratorAnswers(facts) ==
    LET told == numericTokens(facts.offer) \cup numericTokens(facts.discount)
        right == [fits |-> TRUE, mentions |-> TextFacts, numbers |-> told \cup {facts.cost}]
    IN  {Failed, right, [right EXCEPT !.fits = FALSE], [right EXCEPT !.numbers = told],
         [right EXCEPT !.numbers = @ \cup {Invented}]}
        \cup {[right EXCEPT !.mentions = @ \ {f}] : f \in TextFacts}

(* Fault: the text of the generator is used as it comes.                    *)
GenerateUnchecked(facts, answer) == [output |-> answer, source |-> "llm"]

(* GenerateCopy, once the template is known to be usable.                   *)
GenerateCopy(facts, answer) ==
    IF ValidateCopyOutput(facts, answer) THEN [output |-> answer, source |-> "llm"]
    ELSE [output |-> Template(facts), source |-> "template"]
===============================================================================
