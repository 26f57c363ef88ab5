----------------------- MODULE HardwareSafety_proofs -----------------------
(***************************************************************************)
(* Proofs about the hardware safety controller, for all limits, settings   *)
(* and positions.                                                          *)
(***************************************************************************)
EXTENDS HardwareSafetyProperties, TLAPS

-----------------------------------------------------------------------------
(* Arithmetic.                                                             *)

\* A part of n is between 0 and n.
LEMMA PartOf ==
  ASSUME NEW n \in Nat, NEW num \in Nat, NEW den \in Nat, den > 0, num <= den
  PROVE  (n * num) \div den \in 0 .. n
<1> DEFINE a == n * num
           q == a \div den
<1>1. a \in Nat /\ a <= n * den /\ n * den \in Nat
  OBVIOUS
<1> HIDE DEF a
<1>2. q \in Int /\ q * den <= a /\ a < q * den + den
  BY <1>1
<1> HIDE DEF q
<1>3. q <= n
  <2> SUFFICES ASSUME q >= n + 1 PROVE FALSE
    BY <1>2
  <2>1. q * den >= (n + 1) * den
    BY <1>2
  <2> QED  BY <1>1, <1>2, <2>1
<1>4. 0 <= q
  <2> SUFFICES ASSUME q + 1 <= 0 PROVE FALSE
    BY <1>2
  <2>1. (q + 1) * den <= 0
    BY <1>2
  <2> QED  BY <1>1, <1>2, <2>1
<1> QED  BY <1>2, <1>3, <1>4 DEF q, a

\* The blend of a smoothstep is a part: q cubed is p * p * (3 * q - 2 * p) and
\* something that is not negative.
LEMMA BlendIsPart ==
  ASSUME NEW p \in Nat, NEW q \in Nat, q > 0, p <= q
  PROVE  /\ p * p * (3 * q - 2 * p) \in Nat
         /\ q * q * q \in Nat /\ q * q * q > 0
         /\ p * p * (3 * q - 2 * p) <= q * q * q
<1> DEFINE r == q - p
           left == r * r * (3 * p + r)
<1>1. r \in Nat /\ q = p + r
  OBVIOUS
<1>2. 3 * q - 2 * p \in Nat /\ p * p \in Nat
  OBVIOUS
<1>3. p * p * (3 * q - 2 * p) \in Nat
  BY <1>2
<1>4. q * q \in Nat /\ q * q > 0
  OBVIOUS
<1>5. q * q * q \in Nat /\ q * q * q > 0
  BY <1>4
<1>6. left \in Nat
  <2>1. r * r \in Nat /\ 3 * p + r \in Nat  BY <1>1
  <2> HIDE DEF r
  <2> QED  BY <2>1
<1>7. p * p * (3 * q - 2 * p) + left = q * q * q
  BY <1>1
<1> QED  BY <1>3, <1>5, <1>6, <1>7

\* A quotient moves by no more than r while the dividend moves by no more than r divisors.
LEMMA QuotientStep ==
  ASSUME NEW a \in Nat, NEW b \in Nat, NEW r \in Nat, NEW den \in Nat, den > 0,
         a <= b, b <= a + r * den
  PROVE  /\ a \div den \in Int /\ b \div den \in Int
         /\ a \div den <= b \div den /\ b \div den <= a \div den + r
<1> DEFINE x == a \div den
           y == b \div den
<1>1. x \in Int /\ x * den <= a /\ a < x * den + den
  OBVIOUS
<1>2. y \in Int /\ y * den <= b /\ b < y * den + den
  OBVIOUS
<1>3. r * den \in Nat
  OBVIOUS
<1> HIDE DEF x, y
<1>4. x <= y
  <2> SUFFICES ASSUME x >= y + 1 PROVE FALSE
    BY <1>1, <1>2
  <2>1. x * den >= (y + 1) * den
    BY <1>1, <1>2
  <2> QED
    BY <1>1, <1>2, <2>1
<1>5. y <= x + r
  <2> SUFFICES ASSUME y >= x + r + 1 PROVE FALSE
    BY <1>1, <1>2
  <2>1. y * den >= (x + r + 1) * den
    BY <1>1, <1>2
  <2>2. (x + r + 1) * den = x * den + r * den + den
    BY <1>1
  <2>3. x * den \in Int /\ y * den \in Int
    BY <1>1, <1>2
  <2> QED
    BY <1>1, <1>2, <1>3, <2>1, <2>2, <2>3
<1> QED
  BY <1>1, <1>2, <1>4, <1>5 DEF x, y

\* From p to p + e of q done, the blend grows by no more than the peak of its speed, 3 / 2,
\* allows: what is missing to it is a sum of squares.
LEMMA BlendStep ==
  ASSUME NEW p \in Nat, NEW e \in Nat, NEW q \in Nat, p + e <= q
  PROVE  /\ p * p * (3 * q - 2 * p) <= (p + e) * (p + e) * (3 * q - 2 * (p + e))
         /\ 2 * ((p + e) * (p + e) * (3 * q - 2 * (p + e)))
              <= 2 * (p * p * (3 * q - 2 * p)) + 3 * e * (q * q)
<1> DEFINE f == q - p - e
           b == p * p * (3 * q - 2 * p)
           c == (p + e) * (p + e) * (3 * q - 2 * (p + e))
           more == e * (3 * p * e + e * e + 6 * p * f + 3 * e * f)
           d == q - 2 * p - e
           less == e * (3 * (d * d) + e * e)
<1>1. f \in Nat /\ q = p + e + f /\ d \in Int /\ b \in Int /\ c \in Int
  OBVIOUS
<1>2. c = b + more
  BY <1>1
<1>3. 2 * c + less = 2 * b + 3 * e * (q * q)
  BY <1>1
<1>4. more \in Nat
  <2> HIDE DEF f
  <2>1. /\ 3 * p * e \in Nat /\ e * e \in Nat
        /\ 6 * p * f \in Nat /\ 3 * e * f \in Nat
    BY <1>1
  <2>2. 3 * p * e + e * e + 6 * p * f + 3 * e * f \in Nat
    BY <2>1
  <2> QED
    BY <2>2
<1>5. less \in Nat
  <2> HIDE DEF d
  <2>1. d * d \in Nat
    BY <1>1
  <2>2. 3 * (d * d) + e * e \in Nat
    BY <2>1
  <2> QED
    BY <2>2
<1>6. 3 * e * (q * q) \in Nat
  OBVIOUS
<1> HIDE DEF more, less, b, c, f, d
<1>7. b <= c /\ 2 * c <= 2 * b + 3 * e * (q * q)
  BY <1>1, <1>2, <1>3, <1>4, <1>5, <1>6
<1> QED
  BY <1>7 DEF b, c

\* On a way from m to n that is at most a third of q, from p to p + e of q done is a step of
\* at most r when e is at most 2 * r.
LEMMA WayStep ==
  ASSUME NEW m \in Int, NEW n \in Int, NEW p \in Nat, NEW e \in Nat, NEW q \in Nat, NEW r \in Nat,
         q > 0, p + e <= q, e <= 2 * r, 3 * Abs(n - m) <= q
  PROVE  Abs(Toward(m, n, (p + e) * (p + e) * (3 * q - 2 * (p + e)), q * q * q)
               - Toward(m, n, p * p * (3 * q - 2 * p), q * q * q)) <= r
<1> DEFINE b == p * p * (3 * q - 2 * p)
           c == (p + e) * (p + e) * (3 * q - 2 * (p + e))
           den == q * q * q
           d == Abs(n - m)
<1>1. d \in Nat /\ 3 * d <= q
  BY DEF Abs
<1>2. /\ b \in Nat /\ c \in Nat /\ den \in Nat /\ den > 0
      /\ b <= c /\ 2 * c <= 2 * b + 3 * e * (q * q)
  <2>1. b \in Nat /\ den \in Nat /\ den > 0
    BY BlendIsPart
  <2>2. p + e \in Nat
    OBVIOUS
  <2>3. c \in Nat
    BY <2>2, BlendIsPart
  <2> QED
    BY <2>1, <2>3, BlendStep
<1>3. c <= b + 3 * r * (q * q)
  <2>1. q * q \in Nat
    OBVIOUS
  <2>2. 3 * e * (q * q) <= 3 * (2 * r) * (q * q)
    BY <2>1
  <2>3. 3 * (2 * r) * (q * q) = 2 * (3 * r * (q * q)) /\ 3 * r * (q * q) \in Nat /\ 3 * e * (q * q) \in Nat
    BY <2>1
  <2> HIDE DEF b, c
  <2> QED
    BY <1>2, <2>2, <2>3
<1> HIDE DEF b, c, d
<1>4. d * b \in Nat /\ d * c \in Nat /\ d * b <= d * c /\ d * c <= d * b + r * den
  <2>1. d * b \in Nat /\ d * c \in Nat
    BY <1>1, <1>2
  <2>2. d * b <= d * c
    BY <1>1, <1>2
  <2>3. q * q \in Nat /\ r * (q * q) \in Nat
    OBVIOUS
  <2>4. d * c <= d * (b + 3 * r * (q * q))
    BY <1>1, <1>2, <1>3, <2>3
  <2>5. d * (b + 3 * r * (q * q)) = d * b + (3 * d) * (r * (q * q))
    BY <1>1, <1>2
  <2>6. (3 * d) * (r * (q * q)) <= q * (r * (q * q))
    BY <1>1, <2>3
  <2>7. q * (r * (q * q)) = r * den /\ r * den \in Nat
    BY <1>2
  <2> QED
    BY <1>1, <1>2, <2>1, <2>2, <2>3, <2>4, <2>5, <2>6, <2>7
<1>5. /\ (d * b) \div den \in Int /\ (d * c) \div den \in Int
      /\ (d * b) \div den <= (d * c) \div den /\ (d * c) \div den <= (d * b) \div den + r
  BY <1>2, <1>4, QuotientStep
<1> HIDE DEF den
<1>6. CASE n >= m
  <2>1. d = n - m
    BY <1>6 DEF d, Abs
  <2>2. Toward(m, n, b, den) = m + (d * b) \div den /\ Toward(m, n, c, den) = m + (d * c) \div den
    BY <1>6, <2>1 DEF Toward
  <2> QED
    BY <1>5, <2>2 DEF Abs, b, c, den
<1>7. CASE n < m
  <2>1. d = m - n
    BY <1>7 DEF d, Abs
  <2>2. Toward(m, n, b, den) = m - (d * b) \div den /\ Toward(m, n, c, den) = m - (d * c) \div den
    BY <1>7, <2>1 DEF Toward
  <2> QED
    BY <1>5, <2>2 DEF Abs, b, c, den
<1> QED
  BY <1>6, <1>7

\* A point on the way from m to n lies between them.
LEMMA TowardBetween ==
  ASSUME NEW lo \in Int, NEW hi \in Int, NEW m \in lo .. hi, NEW n \in lo .. hi,
         NEW num \in Nat, NEW den \in Nat, den > 0, num <= den
  PROVE  Toward(m, n, num, den) \in lo .. hi
<1>1. CASE n >= m
  <2>1. ((n - m) * num) \div den \in 0 .. n - m
    BY <1>1, PartOf
  <2> QED  BY <1>1, <2>1 DEF Toward
<1>2. CASE n < m
  <2>1. ((m - n) * num) \div den \in 0 .. m - n
    BY <1>2, PartOf
  <2> QED  BY <1>2, <2>1 DEF Toward
<1> QED  BY <1>1, <1>2

\* A step towards n that is scaled down for a distance of den is no longer than num.
LEMMA TowardStep ==
  ASSUME NEW m \in Int, NEW n \in Int, NEW num \in Nat, NEW den \in Nat, den > 0,
         Abs(n - m) <= den
  PROVE  Toward(m, n, num, den) \in Int /\ Abs(Toward(m, n, num, den) - m) <= num
<1>1. CASE n >= m
  <2>1. (num * (n - m)) \div den \in 0 .. num
    BY <1>1, PartOf DEF Abs
  <2>2. (n - m) * num = num * (n - m)
    OBVIOUS
  <2> QED  BY <1>1, <2>1, <2>2 DEF Toward, Abs
<1>2. CASE n < m
  <2>1. (num * (m - n)) \div den \in 0 .. num
    BY <1>2, PartOf DEF Abs
  <2>2. (m - n) * num = num * (m - n)
    OBVIOUS
  <2> QED  BY <1>2, <2>1, <2>2 DEF Toward, Abs
<1> QED  BY <1>1, <1>2

\* Held within the lead of the feedback, an output y that is at most a step from
\* the last output x still is, and lies between y and the feedback.
LEMMA LedStep ==
  ASSUME NEW x \in Int, NEW y \in Int, NEW f \in Int,
         Abs(y - x) <= MaxStep, Abs(x - f) <= MaxTracking
  PROVE  /\ Clip(y, f - Lead, f + Lead) \in Int
         /\ Abs(Clip(y, f - Lead, f + Lead) - x) <= MaxStep
         /\ \/ f <= Clip(y, f - Lead, f + Lead) /\ Clip(y, f - Lead, f + Lead) <= y
            \/ y <= Clip(y, f - Lead, f + Lead) /\ Clip(y, f - Lead, f + Lead) <= f
  BY SettingsAssumption DEF Clip, Most, Least, Lead, Abs

-----------------------------------------------------------------------------
(* Vectors of joints.                                                      *)

LEMMA HomeInside == Home \in Joints /\ Padded(Home) /\ InLimits(Home)
  BY LimitsAssumption DEF Joints, Padded, InLimits

LEMMA ReadingType == \A joints \in Readings : joints \in Joints
  BY LimitsAssumption DEF Readings, Joints, Sides

LEMMA DistanceBounds ==
  ASSUME NEW x \in Joints, NEW y \in Joints
  PROVE  Distance(x, y) \in Nat /\ \A s \in Sides : Abs(x[s] - y[s]) <= Distance(x, y)
  BY DEF Distance, Most, Abs, Joints, Sides

\* A point of a way Home that starts inside is inside.
LEMMA SampleInside ==
  ASSUME NEW t \in Trajectory
  PROVE  Sample(t) \in Joints /\ (Padded(t.start) => Padded(Sample(t)))
<1> DEFINE p == Done(t.start, t.age)
           q == Whole(t.start)
<1>1. t.start \in Joints /\ t.age \in Nat
  BY DEF Trajectory
<1>2. q \in Nat /\ q > 0
  <2>1. Distance(Home, t.start) \in Nat  BY <1>1, HomeInside, DistanceBounds
  <2>2. 2 * ReturnSpeed * MinDuration \in Nat /\ 2 * ReturnSpeed * MinDuration > 0
    BY SettingsAssumption
  <2> QED  BY <2>1, <2>2 DEF Whole, Most
<1>3. p \in Nat /\ p <= q
  <2>1. 2 * ReturnSpeed * t.age \in Nat  BY <1>1, SettingsAssumption
  <2> QED  BY <2>1, <1>2 DEF Done, Least
<1> HIDE DEF p, q
<1>4. Sample(t) = [s \in Sides |-> Toward(t.start[s], Home[s], p * p * (3 * q - 2 * p), q * q * q)]
  BY DEF Sample, p, q
<1> DEFINE num == p * p * (3 * q - 2 * p)
           den == q * q * q
<1>5. num \in Nat /\ den \in Nat /\ den > 0 /\ num <= den
  BY <1>2, <1>3, BlendIsPart
<1> HIDE DEF num, den
<1>6. ASSUME NEW s \in Sides, NEW lo \in Int, NEW hi \in Int,
             t.start[s] \in lo .. hi, Home[s] \in lo .. hi
      PROVE  Toward(t.start[s], Home[s], num, den) \in lo .. hi
  BY <1>5, <1>6, TowardBetween
<1>7. ASSUME NEW s \in Sides PROVE Toward(t.start[s], Home[s], num, den) \in Int
  <2>1. t.start[s] \in Int /\ Home[s] \in Int
    BY <1>1, LimitsAssumption DEF Joints
  <2>2. Toward(t.start[s], Home[s], num, den) \in
          Least(t.start[s], Home[s]) .. Most(t.start[s], Home[s])
    BY <2>1, <1>6 DEF Least, Most
  <2> QED  BY <2>1, <2>2 DEF Least, Most
<1>8. ASSUME Padded(t.start), NEW s \in Sides
      PROVE  Toward(t.start[s], Home[s], num, den) \in Lower[s] - Padding .. Upper[s] + Padding
  <2>1. /\ Lower[s] - Padding \in Int /\ Upper[s] + Padding \in Int
        /\ Home[s] \in Lower[s] - Padding .. Upper[s] + Padding
        /\ t.start[s] \in Lower[s] - Padding .. Upper[s] + Padding
    BY <1>8, HomeInside, LimitsAssumption DEF Padded
  <2> QED  BY <2>1, <1>6
<1> QED  BY <1>4, <1>7, <1>8 DEF num, den, Joints, Padded

\* The way from start to end, at a speed, in at least a duration.
Way(start, end, speed, duration, age) ==
  LET q == Most(2 * speed * duration, 3 * Distance(end, start))
      p == Least(2 * speed * age, q)
  IN [s \in Sides |-> Toward(start[s], end[s], p * p * (3 * q - 2 * p), q * q * q)]

\* It is never faster than that speed.
LEMMA WayIsSlow ==
  ASSUME NEW start \in Joints, NEW end \in Joints, NEW speed \in Nat \ {0},
         NEW duration \in Nat \ {0}, NEW age \in Nat
  PROVE  /\ Way(start, end, speed, duration, age) \in Joints
         /\ Near(Way(start, end, speed, duration, age + 1),
                 Way(start, end, speed, duration, age), speed)
<1> DEFINE q == Most(2 * speed * duration, 3 * Distance(end, start))
           p == Least(2 * speed * age, q)
           e == Least(2 * speed * (age + 1), q) - p
<1>1. Distance(end, start) \in Nat /\ \A s \in Sides : Abs(end[s] - start[s]) <= Distance(end, start)
  BY DistanceBounds
<1>2. q \in Nat /\ q > 0 /\ 3 * Distance(end, start) <= q
  <2>1. 2 * speed * duration \in Nat /\ 2 * speed * duration > 0
    OBVIOUS
  <2> QED
    BY <2>1, <1>1 DEF Most
<1> HIDE DEF q
<1>3. p \in Nat /\ e \in Nat /\ p + e <= q /\ e <= 2 * speed /\ p + e = Least(2 * speed * (age + 1), q)
  <2>1. 2 * speed * age \in Nat /\ 2 * speed * (age + 1) = 2 * speed * age + 2 * speed
    OBVIOUS
  <2> QED
    BY <1>2, <2>1 DEF Least
<1>4. /\ Way(start, end, speed, duration, age)
           = [s \in Sides |-> Toward(start[s], end[s], p * p * (3 * q - 2 * p), q * q * q)]
      /\ Way(start, end, speed, duration, age + 1)
           = [s \in Sides |-> Toward(start[s], end[s],
                (p + e) * (p + e) * (3 * q - 2 * (p + e)), q * q * q)]
  BY <1>3 DEF Way, q
<1> HIDE DEF p, e
<1>5. ASSUME NEW s \in Sides
      PROVE  /\ Toward(start[s], end[s], p * p * (3 * q - 2 * p), q * q * q) \in Int
             /\ Abs(Way(start, end, speed, duration, age + 1)[s]
                      - Way(start, end, speed, duration, age)[s]) <= speed
  <2>1. start[s] \in Int /\ end[s] \in Int
    BY DEF Joints
  <2>2. 3 * Abs(end[s] - start[s]) <= q
    BY <1>1, <1>2, <2>1 DEF Abs
  <2>3. Toward(start[s], end[s], p * p * (3 * q - 2 * p), q * q * q)
          \in Least(start[s], end[s]) .. Most(start[s], end[s])
    <3>1. start[s] \in Least(start[s], end[s]) .. Most(start[s], end[s])
          /\ end[s] \in Least(start[s], end[s]) .. Most(start[s], end[s])
          /\ Least(start[s], end[s]) \in Int /\ Most(start[s], end[s]) \in Int
      BY <2>1 DEF Least, Most
    <3>2. /\ p * p * (3 * q - 2 * p) \in Nat /\ q * q * q \in Nat /\ q * q * q > 0
          /\ p * p * (3 * q - 2 * p) <= q * q * q
      BY <1>2, <1>3, BlendIsPart
    <3> QED
      BY <3>1, <3>2, TowardBetween
  <2>4. Abs(Toward(start[s], end[s], (p + e) * (p + e) * (3 * q - 2 * (p + e)), q * q * q)
              - Toward(start[s], end[s], p * p * (3 * q - 2 * p), q * q * q)) <= speed
    BY <1>2, <1>3, <2>1, <2>2, WayStep
  <2>5. Toward(start[s], end[s], p * p * (3 * q - 2 * p), q * q * q) \in Int
    BY <2>1, <2>3 DEF Least, Most
  <2> QED
    BY <1>4, <2>4, <2>5
<1> QED
  BY <1>4, <1>5 DEF Near, Joints

LEMMA SampleIsWay ==
  ASSUME NEW t \in Trajectory
  PROVE  Sample(t) = Way(t.start, Home, ReturnSpeed, MinDuration, t.age)
BY DEF Sample, Done, Whole, Way

\* A way Home, once it is begun, is never faster than ReturnSpeed.
LEMMA SampleStep ==
  ASSUME NEW t \in Trajectory
  PROVE  Near(Sample([t EXCEPT !.age = @ + 1]), Sample(t), ReturnSpeed)
<1> DEFINE u == [t EXCEPT !.age = @ + 1]
<1>1. t.start \in Joints /\ t.age \in Nat /\ u.start = t.start /\ u.age = t.age + 1
      /\ u \in Trajectory
  BY DEF Trajectory
<1> HIDE DEF u
<1>2. /\ Sample(t) = Way(t.start, Home, ReturnSpeed, MinDuration, t.age)
      /\ Sample(u) = Way(t.start, Home, ReturnSpeed, MinDuration, t.age + 1)
  BY <1>1, SampleIsWay
<1>3. Home \in Joints /\ ReturnSpeed \in Nat \ {0} /\ MinDuration \in Nat \ {0}
  BY HomeInside, SettingsAssumption
<1>4. Near(Sample(u), Sample(t), ReturnSpeed)
  <2>1. Near(Way(t.start, Home, ReturnSpeed, MinDuration, t.age + 1),
             Way(t.start, Home, ReturnSpeed, MinDuration, t.age), ReturnSpeed)
    BY <1>1, <1>3, WayIsSlow
  <2> QED
    BY <1>2, <2>1
<1> QED
  BY <1>4 DEF u

\* What follows a command is inside, one step from the last output.
LEMMA FollowInside ==
  ASSUME NEW target \in Joints, lastOutput \in Joints, feedback \in Joints,
         Near(lastOutput, feedback, MaxTracking), Follow(target)
  PROVE  /\ lastOutput' \in Joints
         /\ Near(lastOutput', lastOutput, MaxStep)
         /\ Padded(lastOutput) /\ Padded(feedback) => Padded(lastOutput')
<1> DEFINE clipped == [s \in Sides |-> Clip(target[s], Lower[s], Upper[s])]
           output == Limited(clipped)
           delta == Distance(clipped, lastOutput)
<1>1. clipped \in Joints /\ \A s \in Sides : clipped[s] \in Lower[s] .. Upper[s]
  BY LimitsAssumption DEF Joints, Clip, Most, Least
<1> HIDE DEF clipped
<1>2. delta \in Nat /\ \A s \in Sides : Abs(clipped[s] - lastOutput[s]) <= delta
  BY <1>1, DistanceBounds
<1>3. output = IF delta <= MaxStep THEN clipped
               ELSE [s \in Sides |-> Toward(lastOutput[s], clipped[s], MaxStep, delta)]
  BY DEF Limited
<1> HIDE DEF output, delta
<1>4. lastOutput' = [s \in Sides |-> Clip(output[s], feedback[s] - Lead, feedback[s] + Lead)]
  BY DEF Follow, Led, output, clipped
<1>5. ASSUME NEW s \in Sides
      PROVE  /\ output[s] \in Int
             /\ Abs(output[s] - lastOutput[s]) <= MaxStep
             /\ Padded(lastOutput) => output[s] \in Lower[s] - Padding .. Upper[s] + Padding
  <2>1. /\ lastOutput[s] \in Int /\ clipped[s] \in Int /\ MaxStep \in Nat
        /\ Lower[s] - Padding \in Int /\ Upper[s] + Padding \in Int
        /\ clipped[s] \in Lower[s] - Padding .. Upper[s] + Padding
    BY <1>1, LimitsAssumption, SettingsAssumption DEF Joints
  <2>2. CASE delta <= MaxStep
    <3>1. output[s] = clipped[s] /\ Abs(clipped[s] - lastOutput[s]) <= delta
      BY <2>2, <1>2, <1>3
    <3>2. Abs(clipped[s] - lastOutput[s]) \in Int
      BY <2>1 DEF Abs
    <3> QED  BY <3>1, <3>2, <2>1, <2>2, <1>2
  <2>3. CASE delta > MaxStep
    <3>1. output[s] = Toward(lastOutput[s], clipped[s], MaxStep, delta)
      BY <2>3, <1>2, <1>3, <2>1
    <3>2. delta > 0 /\ MaxStep <= delta /\ Abs(clipped[s] - lastOutput[s]) <= delta
      BY <2>3, <1>2, <2>1
    <3>3. output[s] \in Int /\ Abs(output[s] - lastOutput[s]) <= MaxStep
      BY <3>1, <3>2, <2>1, <1>2, TowardStep
    <3>4. ASSUME Padded(lastOutput)
          PROVE  output[s] \in Lower[s] - Padding .. Upper[s] + Padding
      <4>1. lastOutput[s] \in Lower[s] - Padding .. Upper[s] + Padding
        BY <3>4 DEF Padded
      <4> QED  BY <4>1, <3>1, <3>2, <2>1, <1>2, TowardBetween
    <3> QED  BY <3>3, <3>4
  <2> QED  BY <2>1, <2>2, <2>3, <1>2
<1>6. ASSUME NEW s \in Sides
      PROVE  /\ lastOutput'[s] \in Int
             /\ Abs(lastOutput'[s] - lastOutput[s]) <= MaxStep
             /\ Padded(lastOutput) /\ Padded(feedback) =>
                  lastOutput'[s] \in Lower[s] - Padding .. Upper[s] + Padding
  <2>1. lastOutput[s] \in Int /\ feedback[s] \in Int
    BY DEF Joints
  <2>2. Abs(lastOutput[s] - feedback[s]) <= MaxTracking
    BY DEF Near
  <2>3. lastOutput'[s] = Clip(output[s], feedback[s] - Lead, feedback[s] + Lead)
    BY <1>4
  <2>4. /\ lastOutput'[s] \in Int
        /\ Abs(lastOutput'[s] - lastOutput[s]) <= MaxStep
        /\ \/ feedback[s] <= lastOutput'[s] /\ lastOutput'[s] <= output[s]
           \/ output[s] <= lastOutput'[s] /\ lastOutput'[s] <= feedback[s]
    BY <2>1, <2>2, <2>3, <1>5, LedStep
  <2>5. ASSUME Padded(lastOutput), Padded(feedback)
        PROVE  lastOutput'[s] \in Lower[s] - Padding .. Upper[s] + Padding
    <3>1. /\ output[s] \in Lower[s] - Padding .. Upper[s] + Padding
          /\ feedback[s] \in Lower[s] - Padding .. Upper[s] + Padding
      BY <2>5, <1>5 DEF Padded
    <3>2. Lower[s] - Padding \in Int /\ Upper[s] + Padding \in Int
      BY LimitsAssumption
    <3> QED  BY <2>1, <2>4, <3>1, <3>2
  <2> QED  BY <2>4, <2>5
<1>7. lastOutput' \in Joints
  BY <1>4, <1>6 DEF Joints
<1> QED  BY <1>6, <1>7 DEF Near, Padded

\* The way Home, begun or gone on with, stays inside.
LEMMA ReturnInside ==
  ASSUME TypeOK, ReturnHome
  PROVE  /\ trajectory' \in Trajectory
         /\ lastOutput' \in Joints
         /\ Padded(feedback) /\ ReturnsFromInside =>
              Padded(trajectory'.start) /\ Padded(lastOutput')
<1>1. trajectory' \in Trajectory
  BY DEF ReturnHome, TypeOK, Trajectory
<1>2. Padded(feedback) /\ ReturnsFromInside => Padded(trajectory'.start)
  BY DEF ReturnHome, ReturnsFromInside
<1>3. lastOutput' = Sample(trajectory')
  BY DEF ReturnHome
<1> HIDE DEF ReturnHome
<1> QED  BY <1>1, <1>2, <1>3, SampleInside

-----------------------------------------------------------------------------
(* The inductive invariant.                                                *)

Inv == TypeOK /\ SafetyInv

\* A tick that sends: the decisions one by one.
LEMMA SendStep ==
  ASSUME Inv, NEW target \in Joints, Send(target)
  PROVE  /\ Inv'
         /\ action' = "send" => Near(lastOutput', lastOutput, MaxStep)
<1>1. /\ TypeOK /\ checked /\ checked' = FALSE
      /\ begun /\ Padded(feedback) /\ Near(lastOutput, feedback, MaxTracking)
      /\ ReturnsFromInside
      /\ ~stopped => Padded(lastOutput)
  BY DEF Inv, SafetyInv, FeedbackInside, OutputsInside, Send
<1>2. UNCHANGED <<begun, feedback, frameAge, stateAge, teleopState>>
  BY DEF Send, clock
<1>3. SUFFICES /\ lastOutput' \in Joints
               /\ stopped' \in BOOLEAN
               /\ trajectory' \in Trajectory \cup {None}
               /\ action' \in {"none", "send", "hold_home", "return_home", "soft_stop"}
               /\ trajectory' # None => Padded(trajectory'.start)
               /\ ~stopped' => Padded(lastOutput')
               /\ action' = "send" => Near(lastOutput', lastOutput, MaxStep)
  BY <1>1, <1>2 DEF Inv, SafetyInv, TypeOK, FeedbackInside, ReturnsFromInside, OutputsInside
<1>4. CASE SoftStop
  BY <1>1, <1>4 DEF SoftStop, TypeOK, ReturnsFromInside
<1>5. CASE Follow(target)
  <2>1. /\ lastOutput' \in Joints /\ Near(lastOutput', lastOutput, MaxStep)
        /\ Padded(lastOutput) /\ Padded(feedback) => Padded(lastOutput')
    BY <1>1, <1>5, FollowInside DEF TypeOK
  <2>2. UNCHANGED <<trajectory, stopped>> /\ action' = "send"
    BY <1>5 DEF Follow
  <2> QED  BY <1>1, <2>1, <2>2 DEF TypeOK, ReturnsFromInside
<1>6. CASE RearmAtHome
  BY <1>1, <1>6, HomeInside DEF RearmAtHome, TypeOK
<1>7. CASE ReturnHome
  <2>1. /\ trajectory' \in Trajectory /\ lastOutput' \in Joints
        /\ Padded(trajectory'.start) /\ Padded(lastOutput')
    BY <1>1, <1>7, ReturnInside
  <2>2. UNCHANGED stopped /\ action' \in {"hold_home", "return_home"}
    BY <1>7 DEF ReturnHome
  <2> QED  BY <1>1, <2>1, <2>2 DEF TypeOK
<1> QED  BY <1>4, <1>5, <1>6, <1>7 DEF Send, Decide

\* A reading that is not inside stops the ticks.
LEMMA ReadStep ==
  ASSUME Inv, NEW joints \in Joints, NEW advanced \in [Sides -> BOOLEAN],
         NEW healthy \in BOOLEAN, Read(joints, advanced, healthy)
  PROVE  Inv' /\ (action' = "send" => ~checked')
<1>1. /\ TypeOK /\ ReturnsFromInside /\ ~stopped /\ ~checked
      /\ Padded(lastOutput)
  BY DEF Inv, SafetyInv, OutputsInside, Read
<1>2. /\ feedback' = joints /\ begun' = TRUE
      /\ lastOutput' = IF begun THEN lastOutput ELSE joints
      /\ UNCHANGED <<teleopState, stateAge, trajectory>>
      /\ \/ /\ checked' = TRUE /\ action' = "none" /\ UNCHANGED stopped
            /\ Padded(joints) /\ Near(lastOutput', joints, MaxTracking)
         \/ stopped' = TRUE /\ action' = "soft_stop" /\ UNCHANGED checked
  BY DEF Read
<1>3. frameAge' \in [Sides -> 0 .. FeedbackTimeout + 1]
  <2>1. 0 \in 0 .. FeedbackTimeout + 1  BY SettingsAssumption
  <2> QED  BY <2>1, <1>1 DEF Read, TypeOK
<1>4. TypeOK'
  BY <1>1, <1>2, <1>3 DEF TypeOK
<1>5. SafetyInv'
  BY <1>1, <1>2 DEF SafetyInv, FeedbackInside, ReturnsFromInside, OutputsInside
<1> QED  BY <1>1, <1>2, <1>4, <1>5 DEF Inv

\* As time passes nothing moves.
LEMMA ElapseStep == Inv /\ Elapse => Inv' /\ (trajectory # None => trajectory' # None)
<1> SUFFICES ASSUME Inv, Elapse PROVE Inv' /\ (trajectory # None => trajectory' # None)
  OBVIOUS
<1>1. frameAge' \in [Sides -> 0 .. FeedbackTimeout + 1]
  BY SettingsAssumption DEF Inv, TypeOK, Elapse, Least
<1>2. stateAge' \in 0 .. StateTimeout + 1
  BY SettingsAssumption DEF Inv, TypeOK, Elapse, Least
<1>3. /\ trajectory' \in Trajectory \cup {None}
      /\ trajectory' # None <=> trajectory # None
      /\ trajectory' # None => trajectory'.start = trajectory.start
  BY SettingsAssumption, NoneAssumption DEF Inv, TypeOK, Elapse, Least, Trajectory
<1>4. UNCHANGED <<lastOutput, begun, feedback, teleopState, stopped, checked, action>>
  BY DEF Elapse
<1>5. TypeOK'
  BY <1>1, <1>2, <1>3, <1>4 DEF Inv, TypeOK
<1> QED  BY <1>3, <1>4, <1>5
     DEF Inv, SafetyInv, FeedbackInside, ReturnsFromInside, OutputsInside

LEMMA LocalTargetType == TypeOK => LocalTarget \in Joints
  BY LimitsAssumption, SettingsAssumption
     DEF TypeOK, LocalTarget, Joints, Clip, Most, Least

\* Every step reads, sends, or leaves what the arms are told alone.
LEMMA StepKinds ==
  ASSUME Inv, [Next]_vars
  PROVE  \/ \E joints \in Joints, advanced \in [Sides -> BOOLEAN], healthy \in BOOLEAN :
              Read(joints, advanced, healthy)
         \/ \E target \in Joints : Send(target)
         \/ Elapse
         \/ /\ UNCHANGED <<lastOutput, begun, feedback, frameAge, trajectory, stopped, action>>
            /\ teleopState' \in {"none", "idle", "teleop", "returning"}
            /\ stateAge' \in 0 .. StateTimeout + 1
            /\ checked' \in BOOLEAN /\ (checked' => checked)
<1>1. TypeOK  BY DEF Inv
<1>2. CASE \E joints \in Readings, advanced \in [Sides -> BOOLEAN], healthy \in BOOLEAN :
             Read(joints, advanced, healthy)
  BY <1>2, ReadingType
<1>3. CASE \E target \in Readings : Send(target)
  BY <1>3, ReadingType
<1>4. CASE SendLocal
  BY <1>1, <1>4, LocalTargetType DEF SendLocal
<1>5. CASE SendNothing
  BY <1>1, <1>5 DEF SendNothing, clock, TypeOK
<1>6. CASE \E s \in {"idle", "teleop", "returning", "fault"} : HearState(s)
  BY <1>1, <1>6, SettingsAssumption DEF HearState, TeleopPhase, TypeOK
<1>7. CASE UNCHANGED vars
  BY <1>1, <1>7 DEF vars, clock, TypeOK
<1> QED  BY <1>2, <1>3, <1>4, <1>5, <1>6, <1>7 DEF Next

LEMMA InvStep == Inv /\ [Next]_vars => Inv'
<1> SUFFICES ASSUME Inv, [Next]_vars PROVE Inv'
  OBVIOUS
<1>1. CASE UNCHANGED <<lastOutput, begun, feedback, frameAge, trajectory, stopped, action>>
           /\ teleopState' \in {"none", "idle", "teleop", "returning"}
           /\ stateAge' \in 0 .. StateTimeout + 1
           /\ checked' \in BOOLEAN /\ (checked' => checked)
  BY <1>1 DEF Inv, TypeOK, SafetyInv, FeedbackInside, ReturnsFromInside, OutputsInside
<1> QED  BY <1>1, StepKinds, ReadStep, SendStep, ElapseStep

LEMMA InvInit == Init => Inv
<1> SUFFICES ASSUME Init PROVE Inv
  OBVIOUS
<1>1. TypeOK
  <2>1. begun \in BOOLEAN /\ stopped \in BOOLEAN /\ checked \in BOOLEAN
    BY Zenon DEF Init
  <2>2. 0 \in 0 .. FeedbackTimeout + 1 /\ 0 \in 0 .. StateTimeout + 1
    BY SettingsAssumption
  <2>3. frameAge \in [Sides -> 0 .. FeedbackTimeout + 1] /\ stateAge \in 0 .. StateTimeout + 1
    BY <2>2 DEF Init
  <2>4. /\ lastOutput \in Joints /\ feedback \in Joints /\ trajectory \in Trajectory \cup {None}
        /\ teleopState = "none" /\ action = "none"
    BY HomeInside DEF Init
  <2> QED  BY <2>1, <2>3, <2>4 DEF TypeOK
<1>2. ~checked /\ trajectory = None /\ lastOutput = Home
  BY DEF Init
<1>3. FeedbackInside /\ ReturnsFromInside /\ OutputsInside
  BY <1>2, HomeInside DEF FeedbackInside, ReturnsFromInside, OutputsInside
<1> QED  BY <1>1, <1>3 DEF Inv, SafetyInv

\* Every variable has its type, for all limits and settings.
THEOREM TypeCorrect == Spec => []TypeOK
<1>1. Inv => TypeOK  BY DEF Inv
<1> QED  BY <1>1, InvInit, InvStep, PTL DEF Spec

\* Until the arms are stopped, they are told nothing outside the limits and their
\* padding (decide, _return_home, HomeTrajectory.sample).
THEOREM OutputsStayInside == Spec => []SafetyInv
<1>1. Inv => SafetyInv  BY DEF Inv
<1> QED  BY <1>1, InvInit, InvStep, PTL DEF Spec

\* A way Home is never faster than return_max_speed_deg_s, for all limits and wherever it
\* begins (HomeTrajectory).
THEOREM ReturnsAreSlow == Spec => []ReturnSpeedBounded
<1>1. TypeOK => ReturnSpeedBounded
  BY SampleStep DEF TypeOK, ReturnSpeedBounded
<1> QED
  BY <1>1, TypeCorrect, PTL

\* While commands are followed no joint steps further than maximum_output_step_deg
\* (decide).
THEOREM StepsAreBounded == Spec => StepBounded
<1>1. Inv /\ [Next]_vars =>
        [action' = "send" /\ checked /\ ~checked' => Near(lastOutput', lastOutput, MaxStep)]_vars
  <2> SUFFICES ASSUME Inv, [Next]_vars, action' = "send", checked, ~checked'
               PROVE  Near(lastOutput', lastOutput, MaxStep)
    OBVIOUS
  <2>1. CASE \E target \in Joints : Send(target)
    BY <2>1, SendStep
  <2>2. CASE \E joints \in Joints, advanced \in [Sides -> BOOLEAN], healthy \in BOOLEAN :
               Read(joints, advanced, healthy)
    BY <2>2 DEF Read
  <2>3. CASE UNCHANGED lastOutput
    BY <2>3, SettingsAssumption DEF Inv, TypeOK, Near, Joints, Abs
  <2> QED  BY <2>1, <2>2, <2>3, StepKinds DEF Elapse
<1> QED  BY <1>1, InvInit, InvStep, PTL DEF Spec, StepBounded

-----------------------------------------------------------------------------
(* The way Home is only gone forwards.                                     *)

\* On a way from m to n, more done is nearer to n.
LEMMA WayForward ==
  ASSUME NEW m \in Int, NEW n \in Int, NEW p \in Nat, NEW e \in Nat, NEW q \in Nat,
         q > 0, p + e <= q
  PROVE  LET x == Toward(m, n, p * p * (3 * q - 2 * p), q * q * q)
             y == Toward(m, n, (p + e) * (p + e) * (3 * q - 2 * (p + e)), q * q * q)
         IN (x <= y /\ y <= n) \/ (n <= y /\ y <= x)
<1> DEFINE b == p * p * (3 * q - 2 * p)
           c == (p + e) * (p + e) * (3 * q - 2 * (p + e))
           den == q * q * q
           d == Abs(n - m)
<1>1. d \in Nat
  BY DEF Abs
<1>2. /\ b \in Nat /\ c \in Nat /\ den \in Nat /\ den > 0
      /\ b <= c /\ c <= den
  <2>1. b \in Nat /\ den \in Nat /\ den > 0
    BY BlendIsPart
  <2>2. p + e \in Nat
    OBVIOUS
  <2>3. c \in Nat /\ c <= den
    BY <2>2, BlendIsPart
  <2> QED
    BY <2>1, <2>3, BlendStep
<1> HIDE DEF b, c, d, den
<1>3. /\ d * b \in Nat /\ d * c \in Nat /\ d * den \in Nat
      /\ d * b <= d * c /\ d * c <= d * den
  BY <1>1, <1>2
<1>4. /\ (d * b) \div den \in Int /\ (d * c) \div den \in Int
      /\ (d * b) \div den <= (d * c) \div den
  <2>1. d * c <= d * b + d * den
    BY <1>3
  <2> QED
    BY <1>1, <1>2, <1>3, <2>1, QuotientStep
<1>5. (d * c) \div den \in 0 .. d
  BY <1>1, <1>2, PartOf
<1>6. CASE n >= m
  <2>1. d = n - m
    BY <1>6 DEF d, Abs
  <2>2. Toward(m, n, b, den) = m + (d * b) \div den /\ Toward(m, n, c, den) = m + (d * c) \div den
    BY <1>6, <2>1 DEF Toward
  <2> QED
    BY <1>4, <1>5, <2>1, <2>2 DEF b, c, den
<1>7. CASE n < m
  <2>1. d = m - n
    BY <1>7 DEF d, Abs
  <2>2. Toward(m, n, b, den) = m - (d * b) \div den /\ Toward(m, n, c, den) = m - (d * c) \div den
    BY <1>7, <2>1 DEF Toward
  <2> QED
    BY <1>4, <1>5, <2>1, <2>2 DEF b, c, den
<1> QED
  BY <1>6, <1>7

\* From x to y is towards Home, or nowhere.
Nearer(x, y) ==
  \A s \in Sides : (x[s] <= y[s] /\ y[s] <= Home[s]) \/ (Home[s] <= y[s] /\ y[s] <= x[s])

\* Later on a way Home is nearer to it.
LEMMA SampleForward ==
  ASSUME NEW start \in Joints, NEW a \in Nat, NEW b \in Nat, a <= b
  PROVE  Nearer(Sample([start |-> start, age |-> a]), Sample([start |-> start, age |-> b]))
<1> DEFINE q == Whole(start)
           p == Done(start, a)
           e == Done(start, b) - p
<1>1. q \in Nat /\ q > 0
  <2>1. Distance(Home, start) \in Nat  BY HomeInside, DistanceBounds
  <2>2. 2 * ReturnSpeed * MinDuration \in Nat /\ 2 * ReturnSpeed * MinDuration > 0
    BY SettingsAssumption
  <2> QED  BY <2>1, <2>2 DEF Whole, Most
<1>2. p \in Nat /\ e \in Nat /\ p + e = Done(start, b) /\ p + e <= q
  <2>1. /\ 2 * ReturnSpeed * a \in Nat /\ 2 * ReturnSpeed * b \in Nat
        /\ 2 * ReturnSpeed * a <= 2 * ReturnSpeed * b
    <3>1. 2 * ReturnSpeed \in Nat
      BY SettingsAssumption
    <3> QED
      BY <3>1
  <2> HIDE DEF q
  <2>2. p = Least(2 * ReturnSpeed * a, q) /\ Done(start, b) = Least(2 * ReturnSpeed * b, q)
    BY DEF Done, q
  <2> QED  BY <1>1, <2>1, <2>2 DEF Least
<1> HIDE DEF q, p, e
<1>3. /\ Sample([start |-> start, age |-> a])
           = [s \in Sides |-> Toward(start[s], Home[s], p * p * (3 * q - 2 * p), q * q * q)]
      /\ Sample([start |-> start, age |-> b])
           = [s \in Sides |-> Toward(start[s], Home[s],
                (p + e) * (p + e) * (3 * q - 2 * (p + e)), q * q * q)]
  <2>1. p + e = Done(start, b)
    BY <1>2
  <2> QED
    BY <2>1 DEF Sample, p, q
<1>4. ASSUME NEW s \in Sides
      PROVE  LET x == Toward(start[s], Home[s], p * p * (3 * q - 2 * p), q * q * q)
                 y == Toward(start[s], Home[s],
                        (p + e) * (p + e) * (3 * q - 2 * (p + e)), q * q * q)
             IN (x <= y /\ y <= Home[s]) \/ (Home[s] <= y /\ y <= x)
  <2>1. start[s] \in Int /\ Home[s] \in Int
    BY HomeInside DEF Joints
  <2> QED
    BY <1>1, <1>2, <2>1, WayForward
<1> QED
  BY <1>3, <1>4 DEF Nearer

\* Between two ticks what the arms are told is a point of the way Home that the time has
\* not left behind: no tick follows a command meanwhile, and none sends another point.
OnWay ==
  trajectory # None =>
    /\ begun /\ trajectory.age <= MaxAge
    /\ \E a \in 0 .. trajectory.age : lastOutput = Sample([start |-> trajectory.start, age |-> a])

\* A tick that goes the way Home.
LEMMA ReturnForward ==
  ASSUME Inv, OnWay, begun, ReturnHome
  PROVE  /\ trajectory' \in Trajectory /\ trajectory'.age <= MaxAge
         /\ lastOutput' = Sample([start |-> trajectory'.start, age |-> trajectory'.age])
         /\ trajectory # None => Nearer(lastOutput, lastOutput')
<1>1. trajectory' \in Trajectory /\ lastOutput' = Sample(trajectory')
  BY ReturnInside DEF Inv, ReturnHome
<1>2. trajectory' = [start |-> trajectory'.start, age |-> trajectory'.age]
  BY <1>1 DEF Trajectory
<1>3. CASE trajectory = None
  <2>1. trajectory'.age = 0
    BY <1>3 DEF ReturnHome
  <2> QED  BY <1>1, <1>2, <1>3, <2>1, SettingsAssumption
<1>4. CASE trajectory # None
  <2>1. trajectory' = trajectory /\ trajectory.age <= MaxAge
    BY <1>4 DEF ReturnHome, OnWay
  <2>2. PICK a \in 0 .. trajectory.age :
          lastOutput = Sample([start |-> trajectory.start, age |-> a])
    BY <1>4 DEF OnWay
  <2>3. trajectory.start \in Joints /\ trajectory.age \in Nat
    BY <1>1, <2>1 DEF Trajectory
  <2>4. Nearer(Sample([start |-> trajectory.start, age |-> a]),
               Sample([start |-> trajectory.start, age |-> trajectory.age]))
    BY <2>3, SampleForward
  <2> QED  BY <1>1, <1>2, <2>1, <2>2, <2>4
<1> QED  BY <1>3, <1>4

\* A tick that sends while the arms are on their way Home tells them the next point, or
\* Home; it never follows a command.
LEMMA SendForward ==
  ASSUME Inv, OnWay, NEW target \in Joints, Send(target)
  PROVE  /\ OnWay'
         /\ trajectory # None /\ ~stopped' => Nearer(lastOutput, lastOutput')
<1>1. TypeOK /\ begun /\ begun' = begun
  BY DEF Inv, SafetyInv, FeedbackInside, Send
<1>2. lastOutput \in Joints /\ Home \in Joints
  BY <1>1, HomeInside DEF TypeOK
<1>3. CASE SoftStop
  BY <1>1, <1>3 DEF SoftStop, OnWay
<1>4. CASE trajectory = None /\ Follow(target)
  BY <1>4 DEF Follow, OnWay
<1>5. CASE RearmAtHome
  <2>1. trajectory' = None /\ lastOutput' = Home
    BY <1>5 DEF RearmAtHome
  <2> QED  BY <1>2, <2>1 DEF OnWay, Nearer, Joints
<1>6. CASE ReturnHome
  <2>1. /\ trajectory' \in Trajectory /\ trajectory'.age <= MaxAge
        /\ lastOutput' = Sample([start |-> trajectory'.start, age |-> trajectory'.age])
        /\ trajectory # None => Nearer(lastOutput, lastOutput')
    BY <1>1, <1>6, ReturnForward
  <2>2. trajectory'.age \in 0 .. trajectory'.age
    BY <2>1 DEF Trajectory
  <2> QED  BY <1>1, <2>1, <2>2 DEF OnWay
<1> QED  BY <1>3, <1>4, <1>5, <1>6 DEF Send, Decide

LEMMA ElapseForward == Inv /\ OnWay /\ Elapse => OnWay'
<1> SUFFICES ASSUME Inv, OnWay, Elapse, trajectory' # None PROVE OnWay'
  BY DEF OnWay
<1>1. trajectory # None /\ trajectory \in Trajectory /\ UNCHANGED <<begun, lastOutput>>
  BY DEF Inv, TypeOK, Elapse
<1>2. /\ trajectory'.start = trajectory.start
      /\ trajectory'.age = Least(trajectory.age + 1, MaxAge)
  BY <1>1 DEF Elapse, Trajectory
<1>3. begun /\ trajectory.age <= MaxAge
  BY <1>1 DEF OnWay
<1>4. trajectory'.age \in Nat /\ trajectory.age <= trajectory'.age /\ trajectory'.age <= MaxAge
  BY <1>1, <1>2, <1>3, SettingsAssumption DEF Least, Trajectory
<1>5. PICK a \in 0 .. trajectory.age :
        lastOutput = Sample([start |-> trajectory.start, age |-> a])
  BY <1>1 DEF OnWay
<1>6. a \in 0 .. trajectory'.age
  BY <1>1, <1>4 DEF Trajectory
<1> QED  BY <1>1, <1>2, <1>3, <1>4, <1>5, <1>6 DEF OnWay

\* On a way Home every tick tells each joint a point between the last one and Home, or
\* what it was told before, until the arms have arrived or are stopped; for all limits and
\* settings, wherever the way began and whatever is heard in the meantime (decide,
\* _return_home, _can_rearm_at_home).
THEOREM ReturnsGoHome == Spec => Homeward
<1> DEFINE Onward == trajectory # None /\ checked /\ ~checked' /\ ~stopped'
                       => Nearer(lastOutput, lastOutput')
<1>1. Init => OnWay
  BY DEF Init, OnWay
<1>2. Inv /\ OnWay /\ [Next]_vars => OnWay' /\ Onward
  <2> SUFFICES ASSUME Inv, OnWay, [Next]_vars PROVE OnWay' /\ Onward
    OBVIOUS
  <2>0. UNCHANGED lastOutput => Nearer(lastOutput, lastOutput')
    BY HomeInside DEF Inv, TypeOK, Nearer, Joints
  <2>1. CASE \E target \in Joints : Send(target)
    BY <2>1, SendForward
  <2>2. CASE \E joints \in Joints, advanced \in [Sides -> BOOLEAN], healthy \in BOOLEAN :
               Read(joints, advanced, healthy)
    BY <2>2 DEF Read, OnWay
  <2>3. CASE Elapse
    BY <2>0, <2>3, ElapseForward DEF Elapse
  <2>4. CASE UNCHANGED <<lastOutput, begun, feedback, frameAge, trajectory, stopped, action>>
    BY <2>0, <2>4 DEF OnWay
  <2> QED  BY <2>1, <2>2, <2>3, <2>4, StepKinds
<1>3. Inv /\ OnWay /\ [Next]_vars => [Onward]_vars
  BY <1>2
<1>4. Spec => [][Onward]_vars
  BY <1>1, <1>2, <1>3, InvInit, InvStep, PTL DEF Spec
<1>5. [Onward]_vars =>
        [trajectory # None /\ checked /\ ~checked' /\ ~stopped' =>
           \A s \in Sides : \/ lastOutput[s] <= lastOutput'[s] /\ lastOutput'[s] <= Home[s]
                            \/ Home[s] <= lastOutput'[s] /\ lastOutput'[s] <= lastOutput[s]]_vars
  BY DEF Nearer
<1> QED  BY <1>4, <1>5, PTL DEF Homeward
=============================================================================
