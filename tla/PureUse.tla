------------------------------- MODULE PureUse -------------------------------
(***************************************************************************)
(* The functions of ProxyCommon and KmemSizes called with every small      *)
(* argument, each result beside what a definition says of it that does not *)
(* follow the code.                                                        *)
(***************************************************************************)
EXTENDS ProxyCommon, KmemSizes

CONSTANTS
  SearchAlphabet, MaxText, MaxSubstr,  \* the texts that are searched
  LineAlphabet, MaxHeader,             \* the headers
  FieldAlphabet, Separator, MaxFields, \* the arguments that are split
  Byte, MaxBytes, MaxSpace,            \* what is encoded, and for how much room
  Ignored,                             \* characters between the encoded ones
  MaxRequest                           \* the largest request

\* Characters are codes, and those put in between the encoded ones have no digit.
ASSUME PureAssumption ==
  /\ SearchAlphabet \subseteq Nat /\ Byte \subseteq 0 .. 255
  /\ Ignored \subseteq {c \in DOMAIN DecodeEntry : DecodeEntry[c] = -1}

VARIABLE call  \* the call that was made last, its arguments and its result

Texts(alphabet, n) == UNION {[1 .. k -> alphabet] : k \in 0 .. n}

NoCall == [op |-> "none"]

Init == call = NoCall

\* The first argument is there before the call is made.
Given(op, argument) == call' = [op |-> "given", to |-> op, argument |-> argument]
Prepare ==
  /\ call = NoCall
  /\ \/ \E text \in Texts(SearchAlphabet, MaxText) : Given("search", text)
     \/ \E text \in Texts(LineAlphabet, MaxHeader) : Given("header", text)
     \/ \E text \in Texts(FieldAlphabet, MaxFields) : Given("split", text)
     \/ \E bytes \in Texts(Byte, MaxBytes) : Given("encode", bytes)
     \/ \E kilobyte \in 0 .. MaxRequest \div 1024 : Given("malloc", kilobyte)
Has(op) == call.op = "given" /\ call.to = op

Search ==
  /\ Has("search")
  /\ \E substr \in Texts(SearchAlphabet, MaxSubstr) :
       call' = [op |-> "search", text |-> call.argument, substr |-> substr,
                result |-> StrstrICase(call.argument, substr)]

Header ==
  /\ Has("header")
  /\ call' = [op |-> "header", text |-> call.argument, result |-> FullHeader(call.argument)]

Divide ==
  /\ Has("split")
  /\ call' = [op |-> "split", text |-> call.argument,
              result |-> Split(call.argument, Separator)]

\* Encoded, and decoded with one character put in.
Encode ==
  /\ Has("encode")
  /\ \E size \in 0 .. MaxSpace :
       LET bytes == call.argument
           text  == Base64Encode(bytes, size)
       IN  IF text = TooSmall
           THEN call' = [op |-> "encode", bytes |-> bytes, size |-> size, text |-> text]
           ELSE \E i \in 1 .. Len(text) + 1, c \in Ignored, room \in 0 .. MaxBytes :
                  call' = [op |-> "decode", bytes |-> bytes, size |-> size, text |-> text,
                           room |-> room, result |-> Base64Decode(InsertAt(text, i, c), room)]

Malloc ==
  /\ Has("malloc")
  /\ \E size \in {call.argument * 1024 + k : k \in 1 .. 1024} :
       /\ size <= MaxRequest
       /\ call' = [op |-> "malloc", size |-> size, result |-> MallocCache(Ikmem, size)]

\* A cache, and the slabs that it makes one after another.
FirstSlab ==
  /\ call = NoCall
  /\ \E g \in DOMAIN Ikmem.array :
       call' = [op |-> "slab", which |-> g, cache |-> Ikmem.array[g], color |-> 0]

NextSlab ==
  /\ call.op = "slab"
  /\ call' = [call EXCEPT !.color = NextColor(call.cache, @)]

Return ==
  /\ call.op \notin {"none", "given", "slab"}
  /\ call' = NoCall

Next ==
  \/ Prepare \/ Search \/ Header \/ Divide \/ Encode \/ Malloc
  \/ FirstSlab \/ NextSlab
  \/ Return

Spec == Init /\ [][Next]_call

-----------------------------------------------------------------------------
(* Properties.                                                             *)

SameLetter(c, d) == c = d \/ \E k \in 1 .. 26 : {c, d} = {64 + k, 96 + k}

OccursAt(text, substr, i) ==
  /\ i + Len(substr) <= Len(text) + 1
  /\ \A k \in DOMAIN substr : SameLetter(text[i + k - 1], substr[k])

EmptyLineAt(text, i) ==
  /\ SubSeq(text, i, i + 1) = <<CR, LF>>
  /\ i = 1 \/ (i > 2 /\ SubSeq(text, i - 2, i - 1) = <<CR, LF>>)

\* The k-th field begins where the k-th run without the separator does.
FieldStarts(s) ==
  {i \in DOMAIN s : s[i] # Separator /\ (i = 1 \/ s[i - 1] = Separator)}
IsField(s, i, field) ==
  /\ SubSeq(s, i, i + Len(field) - 1) = field
  /\ Separator \notin ToSet(field)
  /\ i + Len(field) \in DOMAIN s => s[i + Len(field)] = Separator

\* strstrICase() finds the first place where the text is there in whatever case,
\* overlapping beginnings included; parseHttpHeader() sees the end of a header
\* exactly when an empty line has come; split() returns the parts of an address
\* between the separators, the empty ones left out.
TextExact ==
  CASE call.op = "search" ->
         LET places == {i \in DOMAIN call.text : OccursAt(call.text, call.substr, i)}
         IN  call.result = IF places = {} THEN NULL ELSE Min(places)
    [] call.op = "header" ->
         call.result = (\E i \in 1 .. Len(call.text) - 1 : EmptyLineAt(call.text, i))
    [] call.op = "split" ->
         /\ Len(call.result) = Cardinality(FieldStarts(call.text))
         /\ \A k \in DOMAIN call.result : \E i \in FieldStarts(call.text) :
              /\ Cardinality({j \in FieldStarts(call.text) : j < i}) = k - 1
              /\ IsField(call.text, i, call.result[k])
    [] OTHER -> TRUE

\* The k-th digit of a group of three bytes, the missing ones zero.
Digit(bytes, k) ==
  LET first == 3 * ((k - 1) \div 4)
      byte(i) == IF first + i <= Len(bytes) THEN bytes[first + i] ELSE 0
      group == byte(1) * 65536 + byte(2) * 256 + byte(3)
  IN  (group \div <<262144, 4096, 64, 1>>[((k - 1) % 4) + 1]) % 64

Digits(bytes) == (8 * Len(bytes) + 5) \div 6
Padding(bytes) == IF bytes = <<>> THEN 0 ELSE 3 - (Len(bytes) % 3)

\* Base64Encode() writes the digits of the bytes and their padding, or -1 when
\* the room is too small for them; Base64Decode() has the bytes back whatever it
\* must ignore in between, or -1 when they do not fit.
RoundTrip ==
  call.op \in {"encode", "decode"} =>
    LET n == Digits(call.bytes) + Padding(call.bytes)
    IN  IF n > call.size THEN call.text = TooSmall
        ELSE /\ call.text = [k \in 1 .. n |->
                  IF k <= Digits(call.bytes) THEN B64_ENCODE_TABLE[Digit(call.bytes, k)]
                  ELSE PadChar]
             /\ call.result =
                  IF Len(call.bytes) <= call.room THEN call.bytes ELSE TooSmall

\* A request is given a cache whose objects are large enough for it, and the
\* smallest of those for what the tables round it to; only what no cache can
\* hold has a block of its own.
LargeEnough ==
  call.op = "malloc" =>
    LET round == IF call.size <= 1024 THEN RoundTo(call.size, 4) ELSE RoundTo(call.size, 1024)
        Holds(caches) ==
          IF call.size > PageSize - Pointer THEN call.result = NoCache
          ELSE /\ call.result \in DOMAIN caches
               /\ caches[call.result].obj >= call.size
               /\ \A g \in DOMAIN caches :
                    caches[g].obj >= round => caches[g].obj >= caches[call.result].obj
    IN  Holds(Ikmem.array)

\* Whatever the color of a slab, it has the objects that its cache counts on, or
\* one more, all of them inside the page behind the descriptor and aligned; the
\* descriptors are outside for the largest cache only, and the arrays are what
\* Kmem assumes them to be.
SlabsHold ==
  call.op = "slab" =>
    LET cache == call.cache
        n     == SlabObjects(cache, call.color)
        first == FirstObject(cache, call.color)
    IN  /\ n \in {cache.num, cache.num + 1} /\ n > 0
        /\ first % IMROUNDSIZE = 0 /\ first + n * cache.unit <= cache.page
        /\ cache.off => call.which = 1
        /\ cache.free_limit = cache.limit /\ cache.limit > cache.num
        /\ cache.batchcount > 0
=============================================================================
