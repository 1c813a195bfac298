SPECIFICATION FormSpec
CONSTANTS
    t1 = t1
    t2 = t2
    Tabs = {t1, t2}
    Orders = {"o1"}
    Warehouses = {"north", "south"}
    Locations = {"shelf", "bin"}
    Suppliers = {"s"}
    Products = {"p"}
    Null = Null
    WarehouseOf <- MCWarehouseOf
    Fillings <- MCFillings
INVARIANTS
    LinkedOrderIsOfWarehouse
    EditKeepsTyping
PROPERTY
    FreshSaveKeepsTheRest
CHECK_DEADLOCK FALSE
