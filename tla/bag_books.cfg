SPECIFICATION Spec
CONSTANTS
    Kind = {1, 2}
    SkillBook <- Books
    Stack <- Stacks
    Opens <- Packs
    Material <- Recipe
    Product <- Result
    Price <- Prices
    Soldier = {1, 2}
    Wants <- Worn
    Slots = 2
    MaxMoney = 2
    MaxGive = 2
    MaxHeld = 3
    MaxSold = 2
    MaxResold = 1
CHECK_DEADLOCK FALSE
INVARIANTS
    OwnBook
