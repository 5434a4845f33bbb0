----------------------------- MODULE CatalogFacts -----------------------------
(***************************************************************************)
(* The facts of a generated product (_attributes and generate_facts of     *)
(* shop/catalog_jobs.py) and what describe, freeze and validate demand of  *)
(* them (_validate_product).  The two are written apart, each with ranges  *)
(* of its own for every category.                                          *)
(*                                                                         *)
(* Numbers are integers of the smallest unit the generator produces: cents,*)
(* tenths of a millimetre, grams, tenths of a litre, tenths of a star.     *)
(* What the validator rounds or compares as floats is exact in these.      *)
(* Left out: ids, names, brands and links, which are texts.                *)
(***************************************************************************)
EXTENDS Integers, Sequences

\* CATEGORY_IDS, in its order.
Categories ==
  <<"Headphones", "PortableSpeakers", "ElectricKettles", "TableLamps", "Keyboards",
    "DeskOrganizers", "YogaMats", "Dumbbells", "Backpacks", "CampingLanterns">>

\* DEPARTMENTS.
Departments ==
  [Electronics |-> {"Headphones", "PortableSpeakers"},
   Home |-> {"ElectricKettles", "TableLamps"},
   Office |-> {"Keyboards", "DeskOrganizers"},
   Sports |-> {"YogaMats", "Dumbbells"},
   Outdoors |-> {"Backpacks", "CampingLanterns"}]

Unrated == 0

\* PROFILES: the prices, the dimensions and the weights of a category.
Profile(cheapest, dearest, length, width, height, lightest, heaviest) ==
  [price |-> cheapest..dearest, length |-> length, width |-> width, height |-> height,
   weight |-> lightest..heaviest]

ProfileOf(category) ==
  CASE category = "Headphones"        -> Profile(2000, 25000, 1900, 1700, 800, 150, 450)
    [] category = "PortableSpeakers" -> Profile(1500, 20000, 1800, 800, 800, 200, 1800)
    [] category = "ElectricKettles"  -> Profile(1800, 14000, 2200, 1700, 2500, 600, 1800)
    [] category = "TableLamps"       -> Profile(1500, 16000, 2000, 2000, 3800, 400, 2500)
    [] category = "Keyboards"         -> Profile(2000, 20000, 3600, 1400, 400, 350, 1200)
    [] category = "DeskOrganizers"   -> Profile(700, 6500, 2800, 1800, 1200, 200, 1500)
    [] category = "YogaMats"         -> Profile(1500, 12000, 18300, 6100, 60, 500, 3000)
    [] category = "Dumbbells"         -> Profile(2000, 45000, 2800, 1500, 1500, 1000, 30000)
    [] category = "Backpacks"         -> Profile(2500, 25000, 4800, 3000, 2000, 300, 2500)
    [] category = "CampingLanterns"  -> Profile(1500, 15000, 1400, 1400, 2200, 150, 1200)

\* Between four and six fifths of the basis.
Around(basis) == {n \in Int : 4 * basis <= 5 * n /\ 5 * n <= 6 * basis}

-------------------------------------------------------------------------------
(* The validator *)

\* ATTRIBUTE_RULES.
Rules(category) ==
  CASE category = "Headphones" ->
         [connection : {"wired", "bluetooth"}, battery_hours : 0..60, noise_cancelling : BOOLEAN]
    [] category = "PortableSpeakers" ->
         [connection : {"bluetooth"}, battery_hours : 8..40, water_resistance : {"IPX4", "IPX6", "IPX7"}]
    [] category = "ElectricKettles" -> [capacity_l : 5..20, power_w : 800..2200]
    [] category = "TableLamps" -> [brightness_lm : 200..1600, dimmable : BOOLEAN]
    [] category = "Keyboards" ->
         [layout : {"compact", "tenkeyless", "fullsize"}, connection : {"USB", "bluetooth"}]
    [] category = "DeskOrganizers" ->
         [material : {"bamboo", "steel", "recycledPlastic"}, compartments : 2..16]
    [] category = "YogaMats" -> [material : {"cork", "rubber", "TPE"}, thickness_mm : 3..12]
    [] category = "Dumbbells" -> [adjustable : BOOLEAN, piece_count : 1..2, per_piece_kg : 1..30]
    [] category = "Backpacks" -> [capacity_l : 10..65, rain_cover : BOOLEAN]
    [] category = "CampingLanterns" -> [brightness_lm : 100..1500, runtime_hours : 4..60]

InHierarchy(p) ==
  /\ \E i \in 1..10 : p.category = Categories[i]
  /\ p.department \in DOMAIN Departments
  /\ p.category \in Departments[p.department]

Consistent(p) ==
  /\ p.available = (p.stock > 0)
  /\ (p.rating_count = 0) = (p.rating_average = Unrated)

\* A mat is unrolled, and a set of dumbbells weighs what its pieces weigh.
Measured(p) ==
  LET profile == ProfileOf(p.category) IN
  /\ p.category # "YogaMats" =>
       /\ p.length_cm \in Around(profile.length)
       /\ p.width_cm \in Around(profile.width)
       /\ p.height_cm \in Around(profile.height)
  /\ p.category # "Dumbbells" => p.weight_kg \in profile.weight

AttributesAgree(p) ==
  LET a == p.attributes IN
  /\ p.category = "Headphones" =>
       /\ a.connection = "wired" => a.battery_hours = 0
       /\ a.connection = "bluetooth" => a.battery_hours >= 12
  /\ p.category = "YogaMats" => p.height_cm = 10 * a.thickness_mm
  /\ p.category = "Dumbbells" => p.weight_kg = 1000 * a.per_piece_kg * a.piece_count

\* GeneratedProduct: the bounds of single fields.
InBounds(p) ==
  /\ p.price_cents >= 0 /\ p.stock >= 0 /\ p.rating_count >= 0
  /\ p.rating_average # Unrated => p.rating_average \in 10..50
  /\ p.length_cm > 0 /\ p.width_cm > 0 /\ p.height_cm > 0 /\ p.weight_kg > 0

Validates(p) ==
  /\ InBounds(p)
  /\ InHierarchy(p)
  /\ Consistent(p)
  /\ p.price_cents \in ProfileOf(p.category).price
  /\ p.attributes \in Rules(p.category)
  /\ Measured(p)
  /\ AttributesAgree(p)

-------------------------------------------------------------------------------
(* The generator *)

\* rng.randrange(first, last + 1, step).
Steps(first, last, step) == {n \in first..last : (n - first) % step = 0}

Attributes(category) ==
  CASE category = "Headphones" ->
         [connection : {"wired"}, battery_hours : {0}, noise_cancelling : BOOLEAN]
           \cup [connection : {"bluetooth"}, battery_hours : 12..60, noise_cancelling : BOOLEAN]
    [] category = "PortableSpeakers" ->
         [connection : {"bluetooth"}, battery_hours : 8..40, water_resistance : {"IPX4", "IPX6", "IPX7"}]
    [] category = "ElectricKettles" -> [capacity_l : 5..20, power_w : Steps(800, 2200, 100)]
    [] category = "TableLamps" -> [brightness_lm : Steps(200, 1600, 50), dimmable : BOOLEAN]
    [] category = "Keyboards" ->
         [layout : {"compact", "tenkeyless", "fullsize"}, connection : {"USB", "bluetooth"}]
    [] category = "DeskOrganizers" ->
         [material : {"bamboo", "steel", "recycledPlastic"}, compartments : 2..16]
    [] category = "YogaMats" -> [material : {"cork", "rubber", "TPE"}, thickness_mm : 3..12]
    [] category = "Dumbbells" -> [adjustable : BOOLEAN, piece_count : {1, 2}, per_piece_kg : 1..30]
    [] category = "Backpacks" -> [capacity_l : 10..65, rain_cover : BOOLEAN]
    [] category = "CampingLanterns" -> [brightness_lm : Steps(100, 1500, 50), runtime_hours : 4..60]

\* generate_facts: p may be the product in line index + 1.
Generates(index, p) ==
  LET category == Categories[(index % 10) + 1]
      profile == ProfileOf(category) IN
  /\ p.category = category
  /\ p.department \in DOMAIN Departments /\ category \in Departments[p.department]
  /\ p.attributes \in Attributes(category)
  /\ p.length_cm \in Around(profile.length)
  /\ p.width_cm \in Around(profile.width)
  /\ IF category = "YogaMats"
     THEN p.height_cm = 10 * p.attributes.thickness_mm
     ELSE p.height_cm \in Around(profile.height)
  /\ IF category = "Dumbbells"
     THEN p.weight_kg = 1000 * p.attributes.per_piece_kg * p.attributes.piece_count
     ELSE p.weight_kg \in profile.weight
  /\ p.price_cents \in profile.price
  /\ IF index % 7 = 0
     THEN p.rating_count = 0 /\ p.rating_average = Unrated
     ELSE p.rating_count \in 1..900 /\ p.rating_average \in 10..50
  /\ p.stock \in IF index % 9 = 0 THEN {0} ELSE 1..120
  /\ p.available = (p.stock > 0)
===============================================================================
